---- MODULE Spec2Model ----
(***************************************************************************)
(* Teleport locomotion of sweethomewebxr: the arc caster (Arccaster), the  *)
(* arc visualiser (TeleportationArc), the per-controller state machine     *)
(* (TeleportationControls), the per-frame driver (createController.update) *)
(* and the reference-space rebasing (ThreeXRSession.setOffset).            *)
(*                                                                         *)
(* Lengths are fixed-point integers in units of 1/1000 (Unit), angles are  *)
(* integers in degrees, stick axes are integers in units of 1/10.          *)
(***************************************************************************)
EXTENDS Integers, Sequences, FiniteSets, TLC

VARIABLES
  ctl,             \* the createController instances, in creation order
  sessions,        \* the ThreeXRSession objects, in creation order
  referenceSpace,  \* the reference space installed in the WebXRManager
  negotiating,     \* sessionstart handlers waiting in initializeThreeXRSession,
                   \* counted by the request whose answer they wait for
  started,         \* sessionstart events so far
  steps,           \* handlers run so far (events delivered and frames rendered)
  last,            \* per instance: what its update() did in the last frame
  ev,              \* the last handler that ran
  commits,         \* commit() calls so far
  houseY,          \* house.position.y
  arc,             \* Arccaster.intersectObject in progress (loop state)
  arcArgs,         \* the arguments of the intersectObject call in progress
  tested,          \* the result of each segment test of that call, in order
  arcCalls,        \* intersectObject calls so far
  trigger,         \* the state of the earlier, trigger-operated version (src/main.ts)
  levels           \* the state of the trigger-operated version whose buttons
                   \* move the house (src/unnamed/part_001)

\* ------------------------------------------------------------------------
\* Bounds of the model
\* ------------------------------------------------------------------------
MaxSteps == 6
MaxSessions == 2
MaxCalls == 2

\* ------------------------------------------------------------------------
\* Program constants
\* ------------------------------------------------------------------------
\* the fixed-point scale of lengths (not a program constant)
Unit == 10 * 10 * 10
\* step = 0.2, kept as the divisor 1/0.2
StepDiv == 5
\* for (let x = 0; x < 50; x++)
StepCount == 50
\* gravity (0, -0.1, 0) of the Arccaster built by createController
GravityY == -100
\* isGroundIntersection: normal.y > 0.9, normals kept in units of 1/100
GroundNormalMin == 90
\* Math.sqrt(x * x + y * y) > 0.5 on axes in tenths: x*x + y*y > 25
StartThresholdSq == 25
\* gamepad.axes.length < 4
MinAxes == 4
\* initialPosition (5, 0, 2.5) and the initial angle 0.25 * Math.PI
InitialX == 5000
InitialZ == 2500
InitialAngle == 45
\* defaultEyeHeight = 1.6
DefaultEyeHeight == 1600
\* the buttons of update(): buttonPressed[5], buttonPressed[4]
ButtonY == 5
ButtonX == 4
\* house.translateY(2.5)
LevelHeight == 2500

\* ------------------------------------------------------------------------
\* THREE.Vector3 arithmetic
\* ------------------------------------------------------------------------
Vec(x, y, z) == [x |-> x, y |-> y, z |-> z]

Negate(v) == Vec(-v.x, -v.y, -v.z)

\* v.addScaledVector(w, step) with step = 0.2
AddScaledVector(v, w) ==
  Vec(v.x + (w.x \div StepDiv), v.y + (w.y \div StepDiv), v.z + (w.z \div StepDiv))

\* n / d rounded to the nearest integer, d > 0
RoundDiv(n, d) == (2 * n + d) \div (2 * d)

Abs(n) == IF n < 0 THEN -n ELSE n

\* Math.cos / Math.sin of an angle in degrees, scaled by TrigScale; the angles
\* used are the multiples of 45 degrees and the 3-4-5 angle (about 37 degrees)
TrigScale == 10 * Unit

Mod360(d) == d % 360

Cos(d) ==
  LET a == Mod360(d) IN
  CASE a = 0 -> 10000
    [] a \in {45, 315} -> 7071
    [] a \in {37, 323} -> 8000
    [] a \in {53, 307} -> 6000
    [] a \in {90, 270} -> 0
    [] a \in {127, 233} -> -6000
    [] a \in {143, 217} -> -8000
    [] a \in {135, 225} -> -7071
    [] a = 180 -> -10000

Sin(d) == Cos(d - 90)

\* new THREE.Quaternion().setFromAxisAngle({x: 0, y: 1, z: 0}, angle) applied to
\* v (Vector3.applyQuaternion): the rotation by `angle` about the vertical axis
ApplyYaw(v, angle) ==
  Vec(RoundDiv(v.x * Cos(angle) + v.z * Sin(angle), TrigScale),
      v.y,
      RoundDiv(v.z * Cos(angle) - v.x * Sin(angle), TrigScale))

\* A rotation is a yaw about the vertical axis followed by a pitch (order YXZ).
Rot(yaw, pitch) == [yaw |-> yaw, pitch |-> pitch]

\* new THREE.Vector3(0, 0, -1).applyQuaternion(rotation), in units of 1/1000
Forward(rotation) ==
  LET cp == (Cos(rotation.pitch) * Unit) \div TrigScale
      sp == (Sin(rotation.pitch) * Unit) \div TrigScale
  IN  Vec(RoundDiv(-cp * Sin(rotation.yaw), TrigScale),
          sp,
          RoundDiv(-cp * Cos(rotation.yaw), TrigScale))

\* new THREE.Euler().setFromQuaternion(q, "YXZ").y, in (-180, 180]
EulerY(rotation) ==
  LET a == Mod360(rotation.yaw) IN IF a > 180 THEN a - 360 ELSE a

\* ------------------------------------------------------------------------
\* The scene query (THREE.Raycaster.intersectObject(object, true)).
\* An object is a sequence of flat rectangular surfaces, children included;
\* each lies in the plane axis = at and spans lo..hi on the other two axes.
\* front tells which way the faces are wound: their front looks along the
\* axis (1) or against it (-1). The materials of the program are FrontSide
\* (the default of MeshBasicMaterial and of MTLLoader), so a face is hit from
\* its front only. normal is the vertex normal of the faces (in units of
\* 1/100), or NoNormal when the geometry has no normals.
\* ------------------------------------------------------------------------
NoNormal == [present |-> FALSE]

Normal(x, y, z) == [present |-> TRUE, x |-> x, y |-> y, z |-> z]

Surface(name, axis, at, lo, hi, front, normal) ==
  [name |-> name, axis |-> axis, at |-> at, lo |-> lo, hi |-> hi,
   front |-> front, normal |-> normal]

NoIntersection == [hit |-> FALSE]

\* The crossing of the segment a -> b with surface s, at the fraction
\* num / den of the segment (near = 0, far = |b - a|, both inclusive). The
\* ray meets the face from its front: it travels against the face normal
\* (Ray.intersectTriangle with backface culling); a ray that runs in the
\* plane, or that meets the face from behind, has no crossing.
Crosses(a, b, s) ==
  LET da == a[s.axis] - s.at
      db == b[s.axis] - s.at
  IN  /\ s.front * (db - da) < 0
      /\ s.front * da >= 0
      /\ s.front * db <= 0

HitPoint(a, b, s) ==
  LET num == Abs(a[s.axis] - s.at)
      den == Abs(a[s.axis] - b[s.axis])
      at(k) == IF k = s.axis THEN s.at ELSE a[k] + RoundDiv((b[k] - a[k]) * num, den)
  IN  Vec(at("x"), at("y"), at("z"))

Inside(p, s) ==
  \A k \in {"x", "y", "z"} : s.lo[k] <= p[k] /\ p[k] <= s.hi[k]

Hits(object, a, b) ==
  {i \in 1..Len(object) :
     Crosses(a, b, object[i]) /\ Inside(HitPoint(a, b, object[i]), object[i])}

\* mutant: the hits are taken in the order the surfaces are traversed
NearerInTraversalOrder(object, a, b, i, j) == i <= j

\* hit i is at most as far from a as hit j
Nearer(object, a, b, i, j) ==
  LET ni == Abs(a[object[i].axis] - object[i].at)
      di == Abs(a[object[i].axis] - b[object[i].axis])
      nj == Abs(a[object[j].axis] - object[j].at)
      dj == Abs(a[object[j].axis] - b[object[j].axis])
  IN  ni * dj < nj * di \/ (ni * dj = nj * di /\ i <= j)

\* intersection.normal: the vertex normal, turned to face the ray when it
\* points along the ray's direction (Mesh.raycast: normal.dot(ray.direction)
\* > 0 negates it)
FaceRay(normal, a, b) ==
  IF ~normal.present THEN normal
  ELSE IF normal.x * (b.x - a.x) + normal.y * (b.y - a.y) + normal.z * (b.z - a.z) > 0
       THEN Normal(-normal.x, -normal.y, -normal.z)
       ELSE normal

\* the intersection record of the hit on surface i
IntersectionAt(object, a, b, i) ==
  [hit |-> TRUE,
   point |-> HitPoint(a, b, object[i]),
   normal |-> FaceRay(object[i].normal, a, b),
   object |-> object[i].name]

\* the first element of the hits sorted by distance
NearestOf(object, a, b, hits) ==
  IF hits = {} THEN NoIntersection
  ELSE IntersectionAt(object, a, b,
                      CHOOSE k \in hits : \A j \in hits : Nearer(object, a, b, k, j))

\* intersections[0]: the nearest hit within the segment, if any
Raycast(object, a, b) == NearestOf(object, a, b, Hits(object, a, b))

\* ------------------------------------------------------------------------
\* Arccaster.intersectObject, one loop iteration at a time
\* ------------------------------------------------------------------------
\* lines 111-117: the state on entry to the loop
ArcEnter(gravity, object, position, rotation) ==
  [gravity |-> gravity,
   object |-> object,
   position |-> position,
   velocity |-> Forward(rotation),
   trace |-> <<position>>,
   x |-> 0,
   returned |-> FALSE,
   intersection |-> NoIntersection]

\* mutant: the loop bound off by one (x <= 50)
ArcRunningOneMore(a) == ~a.returned /\ a.x <= StepCount

\* the loop condition x < 50, while no return statement has run
ArcRunning(a) == ~a.returned /\ a.x < StepCount

\* mutant: on a hit the integrated position is appended, not the hit point
ArcPushSample(a, velocity, position, intersection) ==
  IF intersection.hit
  THEN [a EXCEPT !.velocity = velocity,
                 !.position = position,
                 !.trace = Append(@, position),
                 !.intersection = intersection,
                 !.returned = TRUE]
  ELSE [a EXCEPT !.velocity = velocity,
                 !.position = position,
                 !.trace = Append(@, position),
                 !.x = @ + 1]

\* lines 130-136: the hit point ends the trace, or the new position extends it
ArcPush(a, velocity, position, intersection) ==
  IF intersection.hit
  THEN [a EXCEPT !.velocity = velocity,
                 !.position = position,
                 !.trace = Append(@, intersection.point),
                 !.intersection = intersection,
                 !.returned = TRUE]
  ELSE [a EXCEPT !.velocity = velocity,
                 !.position = position,
                 !.trace = Append(@, position),
                 !.x = @ + 1]

\* lines 122-129: the ray from the last sample to the new position
ArcTest(a, velocity, position) ==
  ArcPush(a, velocity, position, Raycast(a.object, a.trace[Len(a.trace)], position))

\* line 120: position.addScaledVector(velocity, step)
ArcMove(a, velocity) == ArcTest(a, velocity, AddScaledVector(a.position, velocity))

\* mutant: the position advances by the velocity of the previous iteration
ArcIteratePositionFirst(a) ==
  ArcTest(a, AddScaledVector(a.velocity, a.gravity), AddScaledVector(a.position, a.velocity))

\* lines 119-136: one iteration of the loop body
ArcIterate(a) == ArcMove(a, AddScaledVector(a.velocity, a.gravity))

\* line 138: return { trace } once the step budget is used up
ArcExit(a) == [a EXCEPT !.returned = TRUE]

RECURSIVE ArcRun(_)
ArcRun(a) ==
  IF a.returned THEN a
  ELSE IF ArcRunning(a) THEN ArcRun(ArcIterate(a))
  ELSE ArcExit(a)

\* the value returned: { trace, intersection? }
ArcResult(a) == [trace |-> a.trace, intersection |-> a.intersection]

intersectObject(gravity, object, position, rotation) ==
  ArcResult(ArcRun(ArcEnter(gravity, object, position, rotation)))

\* ------------------------------------------------------------------------
\* The scene and the inputs of a frame
\* ------------------------------------------------------------------------
\* the scene the arcs are cast against: the house, a floor that faces up and
\* a wall that faces the +z side
house ==
  <<Surface("floor", "y", 0, Vec(-10000, 0, -10000), Vec(10000, 0, 10000), 1,
            Normal(0, 100, 0)),
    Surface("wall", "z", -2100, Vec(-1000, 0, -2100), Vec(1000, 3000, -2100), 1,
            Normal(0, 0, 100))>>

\* the object moved up by dy (house.translateY)
TranslateY(object, dy) ==
  [i \in 1..Len(object) |->
     [object[i] EXCEPT !.at = IF object[i].axis = "y" THEN @ + dy ELSE @,
                       !.lo.y = @ + dy,
                       !.hi.y = @ + dy]]

Pose(position, rotation) == [position |-> position, rotation |-> rotation]

\* one frame's sample of a slot: the stick axes (gamepad.axes[2], [3], in
\* tenths), the controller's pose and the indices of the pressed buttons
Sample(x, y, pose) == [x |-> x, y |-> y, pose |-> pose, buttons |-> {}]

\* the sample with the buttons of the given indices pressed
Pressing(sample, buttons) == [sample EXCEPT !.buttons = buttons]

Samples ==
  {Sample(0, 0, Pose(Vec(3000, 1000, 0), Rot(0, 0))),
   Sample(1, 1, Pose(Vec(3000, 1000, 0), Rot(0, 0))),
   Sample(4, 4, Pose(Vec(0, 1000, 0), Rot(0, 0))),
   Sample(5, 0, Pose(Vec(0, 1000, 0), Rot(0, 90))),
   Sample(0, -10, Pose(Vec(3000, 1000, 0), Rot(180, 0))),
   Pressing(Sample(0, 0, Pose(Vec(3000, 1000, 0), Rot(0, 0))), {ButtonY}),
   Pressing(Sample(0, 0, Pose(Vec(3000, 1000, 0), Rot(0, 0))), {ButtonX})}

\* intersectObject is a function of its arguments alone: its values for the
\* poses a frame can sample are computed once and looked up afterwards
ArcArgs(gravity, object, position, rotation) ==
  [gravity |-> gravity, object |-> object, position |-> position, rotation |-> rotation]

ArcCache ==
  {<<ArcArgs(Vec(0, GravityY, 0), house, s.pose.position, s.pose.rotation),
     intersectObject(Vec(0, GravityY, 0), house, s.pose.position, s.pose.rotation)>> :
     s \in Samples}

ArcLookup(args) ==
  IF \E c \in ArcCache : c[1] = args
  THEN (CHOOSE c \in ArcCache : c[1] = args)[2]
  ELSE intersectObject(args.gravity, args.object, args.position, args.rotation)

\* ------------------------------------------------------------------------
\* isGroundIntersection and TeleportationArc
\* ------------------------------------------------------------------------
\* mutant: the threshold itself is accepted
isGroundIntersectionAtLeast(intersection) ==
  (IF intersection.normal.present THEN intersection.normal.y ELSE 0) >= GroundNormalMin

\* mutant: any surface that does not face down counts as ground
isGroundIntersectionNotDown(intersection) ==
  (IF intersection.normal.present THEN intersection.normal.y ELSE 0) >= 0

\* (intersection.normal?.y ?? 0) > 0.9
isGroundIntersection(intersection) ==
  (IF intersection.normal.present THEN intersection.normal.y ELSE 0) > GroundNormalMin

\* mutant: the marker left visible when it is created
NewControllerMarkerShown(slot, session) ==
  [slot |-> slot,
   session |-> session,
   connectedController |-> FALSE,
   controllerMesh |-> "none",
   isTeleporting |-> FALSE,
   teleportationAngle |-> 0,
   arcPosition |-> Vec(0, 0, 0),
   arcRotation |-> Rot(0, 0),
   geometry |-> <<>>,
   lineVisible |-> TRUE,
   markerVisible |-> TRUE,
   markerPosition |-> Vec(0, 0, 0),
   markerRotation |-> 0]

\* The objects built by one createController call (lines 567-579) for one
\* controller slot: the ThreeXRController (connectedController), the
\* TeleportationControls, the TeleportationArc with its line, and the marker.
\* A THREE.Object3D is visible when constructed; the marker is hidden at once.
NewController(slot, session) ==
  [slot |-> slot,
   session |-> session,
   connectedController |-> FALSE,
   controllerMesh |-> "none",
   isTeleporting |-> FALSE,
   teleportationAngle |-> 0,
   arcPosition |-> Vec(0, 0, 0),
   arcRotation |-> Rot(0, 0),
   geometry |-> <<>>,
   lineVisible |-> TRUE,
   markerVisible |-> FALSE,
   markerPosition |-> Vec(0, 0, 0),
   markerRotation |-> 0]

\* lines 176-182: the marker follows a valid hit and shows only then
ArcMark(tc, angle, intersection, hasIntersection) ==
  [tc EXCEPT
     !.markerPosition = IF hasIntersection THEN intersection.point ELSE @,
     !.markerRotation = IF hasIntersection /\ intersection.normal.present THEN angle ELSE @,
     !.markerVisible = hasIntersection]

\* mutant: any hit shows the marker, the validity predicate is not asked
ArcDrawAnyHit(tc, angle, r) ==
  ArcMark([tc EXCEPT !.geometry = r.trace], angle, r.intersection, r.intersection.hit)

\* lines 171-174: the line is rebuilt from the trace; a hit counts when the
\* validity predicate accepts it
ArcDraw(tc, angle, r) ==
  ArcMark([tc EXCEPT !.geometry = r.trace], angle, r.intersection,
          r.intersection.hit /\ isGroundIntersection(r.intersection))

\* TeleportationArc.update(object, angle), lines 160-183; tc.arcPosition and
\* tc.arcRotation are the arc's world pose (the arc is a child of the scene)
ArcUpdate(tc, object, angle) ==
  ArcDraw(tc, angle,
          ArcLookup(ArcArgs(Vec(0, GravityY, 0), object, tc.arcPosition, tc.arcRotation)))

\* ------------------------------------------------------------------------
\* TeleportationControls
\* ------------------------------------------------------------------------
\* start(), lines 194-196
ControlsStart(tc) == [tc EXCEPT !.isTeleporting = TRUE]

\* mutant: update() aims the arc also while the controller is Idle
ControlsUpdateAlways(tc, pose, object, angle) ==
  [ArcUpdate([tc EXCEPT !.teleportationAngle = angle,
                        !.arcPosition = pose.position,
                        !.arcRotation = pose.rotation],
             object, angle)
     EXCEPT !.lineVisible = tc.isTeleporting]

\* update(object, angle), lines 198-206; pose is the controller's position and
\* rotation
ControlsUpdate(tc, pose, object, angle) ==
  LET aimed == IF tc.isTeleporting
               THEN ArcUpdate([tc EXCEPT !.teleportationAngle = angle,
                                         !.arcPosition = pose.position,
                                         !.arcRotation = pose.rotation],
                              object, angle)
               ELSE tc
  IN  [aimed EXCEPT !.lineVisible = tc.isTeleporting]

\* _stop(), lines 208-212
ControlsStop(tc) ==
  [tc EXCEPT !.isTeleporting = FALSE, !.lineVisible = FALSE, !.markerVisible = FALSE]

\* mutant: a cancel that leaves the arc line showing
ControlsCancelKeepsLine(tc) == [tc EXCEPT !.isTeleporting = FALSE, !.markerVisible = FALSE]

\* cancel(), lines 214-216
ControlsCancel(tc) == ControlsStop(tc)

\* ------------------------------------------------------------------------
\* ThreeXRSession.setOffset, lines 283-293
\* ------------------------------------------------------------------------
Identity == [position |-> Vec(0, 0, 0), orientation |-> 0]

\* mutant: the target position is not negated
OffsetTransformNotNegated(position, angle) ==
  [position |-> ApplyYaw(position, -angle), orientation |-> Mod360(-angle)]

\* mutant: the negated target position is not turned by the rotation
OffsetTransformNotRotated(position, angle) ==
  [position |-> Negate(position), orientation |-> Mod360(-angle)]

\* the XRRigidTransform built from (position, angle)
OffsetTransform(position, angle) ==
  [position |-> ApplyYaw(Negate(position), -angle), orientation |-> Mod360(-angle)]

\* baseReferenceSpace.getOffsetReferenceSpace(offset), as installed by
\* webxrManager.setReferenceSpace
setOffset(session, position, angle) ==
  [base |-> session.baseReferenceSpace, offset |-> OffsetTransform(position, angle)]

\* mutant: a commit that calls setOffset without stopping first
ControlsCommitNoStop(tc, session) ==
  [controls |-> tc,
   calls |-> <<[position |-> tc.markerPosition, angle |-> tc.teleportationAngle]>>,
   referenceSpace |-> setOffset(session, tc.markerPosition, tc.teleportationAngle)]

\* mutant: the commit goes to where the controller was, not to the marker
ControlsCommitToController(tc, session) ==
  [controls |-> ControlsStop(tc),
   calls |-> <<[position |-> tc.arcPosition, angle |-> tc.teleportationAngle]>>,
   referenceSpace |-> setOffset(session, tc.arcPosition, tc.teleportationAngle)]

\* commit(session), lines 218-225: the controls after _stop() and the
\* reference space installed by session.setOffset
ControlsCommit(tc, session) ==
  LET stopped == ControlsStop(tc)
  IN  [controls |-> stopped,
       calls |-> <<[position |-> stopped.markerPosition,
                    angle |-> stopped.teleportationAngle]>>,
       referenceSpace |-> setOffset(session, stopped.markerPosition,
                                    stopped.teleportationAngle)]

\* ------------------------------------------------------------------------
\* Frame negotiation, lines 228-275
\* ------------------------------------------------------------------------
\* what session.requestReferenceSpace supports: "all", "viewer" (local-floor
\* raises NotSupportedError) or "none" (both do)
\* what session.requestReferenceSpace does for one kind: it resolves ("ok"),
\* rejects with a NotSupportedError ("unsupported") or rejects otherwise
RequestOutcomes == {"ok", "unsupported", "error"}

\* requestReferenceSpace, lines 236-249: the space, null, or the error rethrown
requestReferenceSpace(outcome, type) ==
  IF outcome = "ok"
  THEN [error |-> FALSE, null |-> FALSE, space |-> [type |-> type, y |-> 0]]
  ELSE IF outcome = "unsupported"
  THEN [error |-> FALSE, null |-> TRUE]
  ELSE [error |-> TRUE]

\* mutant: the viewer space is used as it is, without the eye-height offset
requestViewerReferenceSpaceNoShift(outcome) == requestReferenceSpace(outcome, "viewer")

\* requestViewerReferenceSpace, lines 255-261: the viewer space moved down by
\* defaultEyeHeight
requestViewerReferenceSpace(outcome) ==
  IF outcome = "ok"
  THEN [error |-> FALSE, null |-> FALSE, space |-> [type |-> "viewer", y |-> -DefaultEyeHeight]]
  ELSE requestReferenceSpace(outcome, "viewer")

\* the end of initializeThreeXRSession, lines 270-274, given the result r of
\* the requests made
NewSession(r, requests) ==
  IF r.error \/ r.null
  THEN [error |-> TRUE, requests |-> requests]
  ELSE [error |-> FALSE, requests |-> requests,
        session |-> [baseReferenceSpace |-> r.space]]

\* line 269: the handler resumes with the answer to its local-floor request.
\* A null result makes it request the viewer space and wait again (waiting);
\* otherwise initializeThreeXRSession ends.
AnswerLocalFloor(outcome) ==
  LET r == requestReferenceSpace(outcome, "local-floor") IN
  IF ~r.error /\ r.null
  THEN [waiting |-> TRUE, requests |-> <<"local-floor", "viewer">>]
  ELSE [waiting |-> FALSE, result |-> NewSession(r, <<"local-floor">>)]

\* line 270: the handler resumes with the answer to its viewer request
AnswerViewer(outcome) ==
  NewSession(requestViewerReferenceSpace(outcome), <<"local-floor", "viewer">>)

\* no handler waits for an answer
NoRequests == [floor |-> 0, viewer |-> 0]

\* the reference space three.js uses until setReferenceSpace is called
DefaultSpace == [base |-> [type |-> "default", y |-> 0], offset |-> Identity]

\* ------------------------------------------------------------------------
\* Controller connection, lines 296-305 and 339-392
\* ------------------------------------------------------------------------
Device(mode, gamepad, axes) == [targetRayMode |-> mode, gamepad |-> gamepad, axes |-> axes]

Devices ==
  {Device("tracked-pointer", TRUE, 4), Device("gaze", TRUE, 4),
   Device("screen", TRUE, 4), Device("tracked-pointer", FALSE, 0),
   Device("tracked-pointer", TRUE, 2)}

\* buildController: the targeting modes it knows
KnownModes == {"tracked-pointer", "gaze"}

\* mutant: the constructor without the check of the axis count
ConnectThrowsNoAxesCheck(device) ==
  \/ ~device.gamepad
  \/ device.targetRayMode \notin KnownModes

\* new ThreeXRConnectedController(this, inputSource) throws
ConnectThrows(device) ==
  \/ ~device.gamepad
  \/ device.axes < MinAxes
  \/ device.targetRayMode \notin KnownModes

\* mutant: a connected controller is replaced without an error
handleControllerConnectedOverwrites(tc, device) ==
  IF ConnectThrows(device) THEN [error |-> TRUE, controls |-> tc]
  ELSE [error |-> FALSE,
        controls |-> [tc EXCEPT !.connectedController = TRUE,
                                !.controllerMesh = device.targetRayMode]]

\* handleControllerConnected(event), lines 378-384
handleControllerConnected(tc, device) ==
  IF tc.connectedController THEN [error |-> TRUE, controls |-> tc]
  ELSE IF ConnectThrows(device) THEN [error |-> TRUE, controls |-> tc]
  ELSE [error |-> FALSE,
        controls |-> [tc EXCEPT !.connectedController = TRUE,
                                !.controllerMesh = device.targetRayMode]]

\* mutant: the disconnect handler also stops the teleportation
handleControllerDisconnectedStops(tc) ==
  IF ~tc.connectedController THEN tc
  ELSE [ControlsStop(tc) EXCEPT !.connectedController = FALSE, !.controllerMesh = "none"]

\* handleControllerDisconnected(event), lines 386-392
handleControllerDisconnected(tc) ==
  IF ~tc.connectedController THEN tc
  ELSE [tc EXCEPT !.connectedController = FALSE, !.controllerMesh = "none"]

\* controller.dispatchEvent({type: "connected"}): the listeners of the slot run
\* in the order they were added, and a listener that throws ends the dispatch
RECURSIVE DispatchConnected(_, _, _, _)
DispatchConnected(cs, i, slot, device) ==
  IF i > Len(cs) THEN [ctl |-> cs, error |-> FALSE]
  ELSE IF cs[i].slot # slot THEN DispatchConnected(cs, i + 1, slot, device)
  ELSE LET r == handleControllerConnected(cs[i], device) IN
       IF r.error THEN [ctl |-> cs, error |-> TRUE]
       ELSE DispatchConnected([cs EXCEPT ![i] = r.controls], i + 1, slot, device)

DispatchDisconnected(cs, slot) ==
  [i \in 1..Len(cs) |->
     IF cs[i].slot = slot THEN handleControllerDisconnected(cs[i]) ELSE cs[i]]

\* ------------------------------------------------------------------------
\* The per-frame driver, createController.update, lines 583-625
\* ------------------------------------------------------------------------
\* new THREE.Vector2(-y, -x).angle() = Math.atan2(x, y) + Math.PI, in degrees,
\* for a stick on an axis or on a diagonal
StickAngle(x, y) ==
  180 + (CASE x = 0 /\ y >= 0 -> 0
           [] x > 0 /\ y = x -> 45
           [] x > 0 /\ y = 0 -> 90
           [] x > 0 /\ y = -x -> 135
           [] x = 0 /\ y < 0 -> 180
           [] x < 0 /\ y = x -> -135
           [] x < 0 /\ y = 0 -> -90
           [] x < 0 /\ y = -x -> -45)

\* mutant: the threshold compared with >= instead of >
StickDeflectedAtLeast(x, y) == x * x + y * y >= StartThresholdSq

\* Math.sqrt(x * x + y * y) > 0.5
StickDeflected(x, y) == x * x + y * y > StartThresholdSq

\* lines 613-617: buttonStates is this frame's pressed state, and a button
\* counts as newly pressed when it is pressed and its buttonStates entry is not
ButtonsPressed(buttons) ==
  LET buttonStates == buttons IN {b \in buttons : b \notin buttonStates}

\* lines 619-624: the house moves down a level for button 5, up for button 4
ButtonsTranslate(buttonPressed) ==
  (IF ButtonY \in buttonPressed THEN -LevelHeight ELSE 0)
    + (IF ButtonX \in buttonPressed THEN LevelHeight ELSE 0)

\* lines 584-587 and 613-624: the distance one run of update() translates the
\* house by
DriverTranslate(tc, sample) ==
  IF ~tc.connectedController THEN 0
  ELSE ButtonsTranslate(ButtonsPressed(sample.buttons))

\* mutant: the release test made with the start threshold instead of x === 0
\* && y === 0
DriverUpdateReleaseBelowThreshold(tc, session, space, object, sample) ==
  LET teleportAngle == StickAngle(sample.x, sample.y) + EulerY(sample.pose.rotation)
      translate == DriverTranslate(tc, sample)
      same(op) == [controls |-> tc, op |-> op, angle |-> teleportAngle,
                   calls |-> <<>>, referenceSpace |-> space, translate |-> translate]
  IN  IF ~tc.connectedController THEN same("return")
      ELSE IF tc.isTeleporting
      THEN IF ~StickDeflected(sample.x, sample.y)
           THEN IF tc.markerVisible
                THEN LET r == ControlsCommit(tc, session) IN
                     [controls |-> r.controls, op |-> "commit", angle |-> teleportAngle,
                      calls |-> r.calls, referenceSpace |-> r.referenceSpace,
                      translate |-> translate]
                ELSE [same("cancel") EXCEPT !.controls = ControlsCancel(tc)]
           ELSE [same("update") EXCEPT
                   !.controls = ControlsUpdate(tc, sample.pose, object, teleportAngle)]
      ELSE IF StickDeflected(sample.x, sample.y)
           THEN [same("start") EXCEPT !.controls = ControlsStart(tc)]
           ELSE same("none")

\* One run of update() for the controller tc whose session is `session`, with
\* the house as `object`: the
\* controls afterwards, the operation called, the setOffset calls made and the
\* reference space installed (space when none is), and the distance the house
\* is translated by.
DriverUpdate(tc, session, space, object, sample) ==
  LET teleportAngle == StickAngle(sample.x, sample.y) + EulerY(sample.pose.rotation)
      translate == DriverTranslate(tc, sample)
      same(op) == [controls |-> tc, op |-> op, angle |-> teleportAngle,
                   calls |-> <<>>, referenceSpace |-> space, translate |-> translate]
  IN  IF ~tc.connectedController THEN same("return")
      ELSE IF tc.isTeleporting
      THEN IF sample.x = 0 /\ sample.y = 0
           THEN IF tc.markerVisible
                THEN LET r == ControlsCommit(tc, session) IN
                     [controls |-> r.controls, op |-> "commit", angle |-> teleportAngle,
                      calls |-> r.calls, referenceSpace |-> r.referenceSpace,
                      translate |-> translate]
                ELSE [same("cancel") EXCEPT !.controls = ControlsCancel(tc)]
           ELSE [same("update") EXCEPT
                   !.controls = ControlsUpdate(tc, sample.pose, object, teleportAngle)]
      ELSE IF StickDeflected(sample.x, sample.y)
           THEN [same("start") EXCEPT !.controls = ControlsStart(tc)]
           ELSE same("none")

\* ------------------------------------------------------------------------
\* State
\* ------------------------------------------------------------------------
vars == <<ctl, sessions, referenceSpace, negotiating, started, steps,
          last, ev, commits, houseY, arc, arcArgs, tested, arcCalls, trigger, levels>>

mainVars == <<ctl, sessions, referenceSpace, negotiating, started, steps,
              last, ev, commits, houseY>>

arcVars == <<arc, arcArgs, tested, arcCalls>>

triggerVars == <<trigger, levels>>

Slots == {0, 1}

\* the record of the last handler: what it was, the setOffset calls it made
\* itself, and (before it ran) the installed reference space and the
\* controllers that were teleporting
Event(type, slot, error, calls) ==
  [type |-> type, slot |-> slot, error |-> error, calls |-> calls,
   space |-> referenceSpace,
   aiming |-> {i \in 1..Len(ctl) : ctl[i].isTeleporting}]

\* the record of the step that ends a run of the sessionstart handler: also
\* the answers the device gave to its requests and the kinds of reference
\* space it requested
Negotiated(answers, requests, error, calls) ==
  [type |-> "negotiated", slot |-> 0, error |-> error, calls |-> calls,
   space |-> referenceSpace,
   aiming |-> {i \in 1..Len(ctl) : ctl[i].isTeleporting},
   answers |-> answers, requests |-> requests]

\* the record of the step in which the handler, told that local-floor is not
\* supported, requests the viewer space and waits again
Negotiating(answers, requests) ==
  [type |-> "negotiating", slot |-> 0, error |-> FALSE, calls |-> <<>>,
   space |-> referenceSpace,
   aiming |-> {i \in 1..Len(ctl) : ctl[i].isTeleporting},
   answers |-> answers, requests |-> requests]

\* the record of a "connected" event: also the input source it carried
ConnectedEvent(slot, device, error) ==
  [type |-> "connected", slot |-> slot, error |-> error, calls |-> <<>>,
   space |-> referenceSpace,
   aiming |-> {i \in 1..Len(ctl) : ctl[i].isTeleporting},
   device |-> device]

\* the record of an update() that has not run yet
NoRun ==
  [op |-> "idle", x |-> 0, y |-> 0, rotation |-> Rot(0, 0), angle |-> 0,
   wasConnected |-> FALSE, wasTeleporting |-> FALSE, markerWasVisible |-> FALSE,
   lineWasVisible |-> FALSE, calls |-> <<>>, buttons |-> {}]

ArcIdle == [returned |-> TRUE, x |-> 0, trace |-> <<>>, intersection |-> NoIntersection]

NoArgs == [position |-> Vec(0, 0, 0)]

\* src/main.ts before any event: no reference space (getReferenceSpace()
\* gives null), and per controller slot no render listener, isSelecting false,
\* INTERSECTION undefined and the marker a visible mesh at the origin. held
\* and rendered tell whether the slot's render() has handled a frame with the
\* trigger held since the last selectstart, and what the last such frame found.
TriggerNoSpace == [base |-> [type |-> "null", y |-> 0], offset |-> Identity]

TriggerInit ==
  [baseReferenceSpace |-> TriggerNoSpace.base,
   referenceSpace |-> TriggerNoSpace,
   c |-> [slot \in Slots |->
            [listening |-> FALSE, isSelecting |-> FALSE,
             INTERSECTION |-> NoIntersection,
             markerVisible |-> TRUE, markerPosition |-> Vec(0, 0, 0),
             rendered |-> FALSE, held |-> NoIntersection]],
   ev |-> [type |-> "init", slot |-> 0, space |-> TriggerNoSpace,
           rendered |-> FALSE, held |-> NoIntersection]]

\* src/unnamed/part_001 before any event: as src/main.ts, and per controller
\* slot no gamepad and buttonStates empty; the house at its loaded height.
\* steps counts the handlers run; ev is the last handler, with the height of
\* the house before it ran.
LevelsInit ==
  [baseReferenceSpace |-> TriggerNoSpace.base,
   referenceSpace |-> TriggerNoSpace,
   houseY |-> 0,
   steps |-> 0,
   c |-> [slot \in Slots |->
            [listening |-> FALSE, gamepad |-> FALSE, buttonStates |-> {},
             isSelecting |-> FALSE, INTERSECTION |-> NoIntersection,
             markerVisible |-> TRUE, markerPosition |-> Vec(0, 0, 0)]],
   ev |-> [type |-> "init", slot |-> 0, houseY |-> 0, space |-> TriggerNoSpace]]

Init ==
  /\ ctl = <<>>
  /\ sessions = <<>>
  /\ referenceSpace = DefaultSpace
  /\ negotiating = NoRequests
  /\ started = 0
  /\ steps = 0
  /\ last = <<>>
  /\ ev = [type |-> "init", slot |-> 0, error |-> FALSE, calls |-> <<>>,
           space |-> DefaultSpace, aiming |-> {}]
  /\ commits = 0
  /\ houseY = 0
  /\ arc = ArcIdle
  /\ arcArgs = NoArgs
  /\ tested = <<>>
  /\ arcCalls = 0
  /\ trigger = TriggerInit
  /\ levels = LevelsInit

\* ------------------------------------------------------------------------
\* Actions
\* ------------------------------------------------------------------------
\* renderer.xr dispatches "sessionstart": the handler of line 476 runs up to
\* the first await that returns to the event loop. Without a session
\* initializeThreeXRSession throws (lines 264-267) and the run ends; with one
\* the local-floor space is requested (line 269).
SessionStart ==
  /\ steps < MaxSteps
  /\ started < MaxSessions
  /\ started' = started + 1
  /\ steps' = steps + 1
  /\ \E session \in BOOLEAN :
       /\ negotiating' = IF session THEN [negotiating EXCEPT !.floor = @ + 1]
                                    ELSE negotiating
       /\ ev' = Event("sessionstart", 0, ~session, <<>>)
  /\ UNCHANGED <<ctl, sessions, referenceSpace, last, commits, houseY>>
  /\ UNCHANGED arcVars
  /\ UNCHANGED triggerVars

\* the rest of a run of the handler once initializeThreeXRSession has ended
\* with r, lines 477-482: on success it installs the initial offset and
\* creates the two controllers
HandlerResumes(r, answers) ==
  IF r.error
  THEN /\ ev' = Negotiated(answers, r.requests, TRUE, <<>>)
       /\ UNCHANGED <<ctl, sessions, referenceSpace, last>>
  ELSE /\ sessions' = Append(sessions, r.session)
       /\ referenceSpace' = setOffset(r.session, Vec(InitialX, 0, InitialZ), InitialAngle)
       /\ ctl' = ctl \o <<NewController(0, Len(sessions) + 1),
                          NewController(1, Len(sessions) + 1)>>
       /\ last' = last \o <<NoRun, NoRun>>
       /\ ev' = Negotiated(answers, r.requests, FALSE,
                           <<[position |-> Vec(InitialX, 0, InitialZ), angle |-> InitialAngle]>>)

\* the device answers a local-floor request: the handler that made it
\* resumes at line 269
LocalFloorAnswered ==
  /\ steps < MaxSteps
  /\ negotiating.floor > 0
  /\ \E outcome \in RequestOutcomes :
       IF AnswerLocalFloor(outcome).waiting
       THEN /\ negotiating' = [floor |-> negotiating.floor - 1,
                               viewer |-> negotiating.viewer + 1]
            /\ ev' = Negotiating(<<outcome>>, AnswerLocalFloor(outcome).requests)
            /\ UNCHANGED <<ctl, sessions, referenceSpace, last>>
       ELSE /\ negotiating' = [negotiating EXCEPT !.floor = @ - 1]
            /\ HandlerResumes(AnswerLocalFloor(outcome).result, <<outcome>>)
  /\ steps' = steps + 1
  /\ UNCHANGED <<started, commits, houseY>>
  /\ UNCHANGED arcVars
  /\ UNCHANGED triggerVars

\* the device answers a viewer request: the handler that made it resumes at
\* line 270
ViewerAnswered ==
  /\ steps < MaxSteps
  /\ negotiating.viewer > 0
  /\ \E outcome \in RequestOutcomes :
       /\ negotiating' = [negotiating EXCEPT !.viewer = @ - 1]
       /\ HandlerResumes(AnswerViewer(outcome), <<"unsupported", outcome>>)
  /\ steps' = steps + 1
  /\ UNCHANGED <<started, commits, houseY>>
  /\ UNCHANGED arcVars
  /\ UNCHANGED triggerVars

\* a "connected" event on a controller slot
Connected ==
  /\ steps < MaxSteps
  /\ \E slot \in Slots, device \in Devices :
       LET r == DispatchConnected(ctl, 1, slot, device) IN
       /\ ctl' = r.ctl
       /\ ev' = ConnectedEvent(slot, device, r.error)
  /\ steps' = steps + 1
  /\ UNCHANGED <<sessions, referenceSpace, negotiating, started, last, commits, houseY>>
  /\ UNCHANGED arcVars
  /\ UNCHANGED triggerVars

\* a "disconnected" event on a controller slot
Disconnected ==
  /\ steps < MaxSteps
  /\ \E slot \in Slots :
       /\ ctl' = DispatchDisconnected(ctl, slot)
       /\ ev' = Event("disconnected", slot, FALSE, <<>>)
  /\ steps' = steps + 1
  /\ UNCHANGED <<sessions, referenceSpace, negotiating, started, last, commits, houseY>>
  /\ UNCHANGED arcVars
  /\ UNCHANGED triggerVars

\* scene.dispatchEvent({type: "render"}): every update() listener runs, in
\* the order the controllers were created. An update() reads and writes its
\* own controller's objects and the house, which it finds where the earlier
\* runs of the frame left it; the reference space is written by setOffset
\* alone, so the frame installs the reference space of its last commit.
\* the distance the first n update() runs of the frame translate the house by
RECURSIVE MovedBefore(_, _, _)
MovedBefore(cs, samples, n) ==
  IF n = 0 THEN 0
  ELSE DriverTranslate(cs[n], samples[cs[n].slot]) + MovedBefore(cs, samples, n - 1)

RenderResult(cs, ss, space, samples) ==
  [i \in 1..Len(cs) |->
     DriverUpdate(cs[i], ss[cs[i].session], space,
                  TranslateY(house, houseY + MovedBefore(cs, samples, i - 1)),
                  samples[cs[i].slot])]

\* the house.translateY calls of the first n update() runs of a frame, added up
RECURSIVE SumTranslate(_, _)
SumTranslate(results, n) ==
  IF n = 0 THEN 0 ELSE results[n].translate + SumTranslate(results, n - 1)

LastCommit(results) ==
  LET committed == {i \in DOMAIN results : results[i].op = "commit"}
  IN  IF committed = {} THEN 0
      ELSE CHOOSE i \in committed : \A j \in committed : j <= i

\* what update() of controller tc did with the frame's sample: the operation,
\* the sample it read (none when it returned at line 586) and the state before
RenderRecord(tc, sample, r) ==
  LET ran == r.op # "return" IN
  [op |-> r.op,
   x |-> IF ran THEN sample.x ELSE 0,
   y |-> IF ran THEN sample.y ELSE 0,
   rotation |-> IF ran THEN sample.pose.rotation ELSE Rot(0, 0),
   angle |-> IF ran THEN r.angle ELSE 0,
   wasConnected |-> tc.connectedController,
   wasTeleporting |-> tc.isTeleporting,
   markerWasVisible |-> tc.markerVisible,
   lineWasVisible |-> tc.lineVisible,
   calls |-> r.calls,
   buttons |-> IF ran THEN sample.buttons ELSE {}]

\* mutant: a commit applies its offset on top of the installed one
RenderApplyOnActive(samples, results, k) ==
  /\ ctl' = [i \in 1..Len(ctl) |-> results[i].controls]
  /\ referenceSpace' =
       IF k = 0 THEN referenceSpace
       ELSE [base |-> results[k].referenceSpace.base,
             offset |->
               [position |->
                  Vec(referenceSpace.offset.position.x + results[k].referenceSpace.offset.position.x,
                      referenceSpace.offset.position.y + results[k].referenceSpace.offset.position.y,
                      referenceSpace.offset.position.z + results[k].referenceSpace.offset.position.z),
                orientation |->
                  Mod360(referenceSpace.offset.orientation
                         + results[k].referenceSpace.offset.orientation)]]
  /\ last' = [i \in 1..Len(ctl) |-> RenderRecord(ctl[i], samples[ctl[i].slot], results[i])]
  /\ commits' = commits + Cardinality({i \in DOMAIN results : results[i].op = "commit"})
  /\ houseY' = houseY + SumTranslate(results, Len(results))

RenderApply(samples, results, k) ==
  /\ ctl' = [i \in 1..Len(ctl) |-> results[i].controls]
  /\ referenceSpace' = IF k = 0 THEN referenceSpace ELSE results[k].referenceSpace
  /\ last' = [i \in 1..Len(ctl) |-> RenderRecord(ctl[i], samples[ctl[i].slot], results[i])]
  /\ commits' = commits + Cardinality({i \in DOMAIN results : results[i].op = "commit"})
  /\ houseY' = houseY + SumTranslate(results, Len(results))

RenderAll(samples, results) == RenderApply(samples, results, LastCommit(results))

Render ==
  /\ steps < MaxSteps
  /\ Len(ctl) > 0
  /\ \E samples \in [Slots -> Samples] :
       RenderAll(samples, RenderResult(ctl, sessions, referenceSpace, samples))
  /\ steps' = steps + 1
  /\ ev' = Event("render", 0, FALSE, <<>>)
  /\ UNCHANGED <<sessions, negotiating, started>>
  /\ UNCHANGED arcVars
  /\ UNCHANGED triggerVars

Next ==
  \/ SessionStart
  \/ LocalFloorAnswered
  \/ ViewerAnswered
  \/ Connected
  \/ Disconnected
  \/ Render

Spec == Init /\ [][Next]_vars

\* ------------------------------------------------------------------------
\* Arccaster.intersectObject on its own: calls with arguments drawn from
\* small sets, run one loop iteration per step
\* ------------------------------------------------------------------------
Gravities == {Vec(0, GravityY, 0), Vec(0, 0, 0), Vec(0, 0, 5000)}

\* two floors one above the other, the lower one first in the traversal
stacked ==
  <<Surface("lower", "y", 480, Vec(-10000, 480, -10000), Vec(10000, 480, 10000), 1,
            Normal(0, 100, 0)),
    Surface("upper", "y", 500, Vec(-10000, 500, -10000), Vec(10000, 500, 10000), 1,
            Normal(0, 100, 0))>>

\* a flat ground plane at y = 0 with normal (0, 1, 0), nothing else
ground ==
  <<Surface("ground", "y", 0, Vec(-10000, 0, -10000), Vec(10000, 0, 10000), 1,
            Normal(0, 100, 0))>>

\* a plane at y = 0, faces wound to look up, with the given vertex normals
\* (or none: NoNormal)
sloped(normal) ==
  <<Surface("slope", "y", 0, Vec(-10000, 0, -10000), Vec(10000, 0, 10000), 1, normal)>>

\* planes with normals around the threshold of isGroundIntersection, tilted
\* toward +x, one tilted toward -z, and one without normals
Slopes ==
  {sloped(Normal(46, 89, 0)), sloped(Normal(44, 90, 0)), sloped(Normal(41, 91, 0)),
   sloped(Normal(0, 91, -41)), sloped(NoNormal)}

Objects == {house, stacked, ground, <<>>} \cup Slopes

Starts == {Vec(0, 1000, 0), Vec(3000, 0, 0)}

\* The positions are sums of multiples of step = 0.2, exact here and rounded
\* to doubles in the program; the directions are chosen so that no sample
\* after the first lies exactly in the plane of a surface, where the rounding
\* would decide on which side of the plane the sample falls.
Rotations == {Rot(0, 0), Rot(0, 90), Rot(180, 0), Rot(90, 37), Rot(0, -53)}

ArcCall ==
  /\ arc.returned
  /\ arcCalls < MaxCalls
  /\ \E gravity \in Gravities, object \in Objects, position \in Starts,
        rotation \in Rotations :
       /\ arc' = ArcEnter(gravity, object, position, rotation)
       /\ arcArgs' = ArcArgs(gravity, object, position, rotation)
  /\ tested' = <<>>
  /\ arcCalls' = arcCalls + 1
  /\ UNCHANGED mainVars
  /\ UNCHANGED triggerVars

\* the segment the next iteration tests: from the last sample to the next
\* integrated position
NextPosition(a) ==
  AddScaledVector(a.position, AddScaledVector(a.velocity, a.gravity))

SegmentHit(a) == Raycast(a.object, a.trace[Len(a.trace)], NextPosition(a))

ArcLoop ==
  /\ ArcRunning(arc)
  /\ arc' = ArcIterate(arc)
  /\ tested' = Append(tested, SegmentHit(arc))
  /\ UNCHANGED <<arcArgs, arcCalls>>
  /\ UNCHANGED mainVars
  /\ UNCHANGED triggerVars

ArcReturn ==
  /\ ~arc.returned
  /\ ~ArcRunning(arc)
  /\ arc' = ArcExit(arc)
  /\ UNCHANGED <<arcArgs, tested, arcCalls>>
  /\ UNCHANGED mainVars
  /\ UNCHANGED triggerVars

NextArc == ArcCall \/ ArcLoop \/ ArcReturn

SpecArc == Init /\ [][NextArc]_vars

\* ------------------------------------------------------------------------
\* ThreeXRSession.setOffset on its own: a session is negotiated, then
\* setOffset is called with arguments drawn from small sets
\* ------------------------------------------------------------------------
OffsetPositions ==
  {Vec(x, y, z) : x \in {-2000, 0, 1000, 5000}, y \in {0, 1000}, z \in {-3000, 0, 2500}}

\* angles in degrees, multiples of a quarter turn, also outside one turn
OffsetAngles == {-90, 0, 90, 180, 270, 360, 450, 540}

\* initializeThreeXRSession is called and requests the local-floor space
OffsetStart ==
  /\ sessions = <<>>
  /\ negotiating = NoRequests
  /\ negotiating' = [floor |-> 1, viewer |-> 0]
  /\ UNCHANGED <<ctl, sessions, referenceSpace, started, steps, last, ev, commits, houseY>>
  /\ UNCHANGED arcVars
  /\ UNCHANGED triggerVars

\* the local-floor request is answered: the viewer space is requested, the
\* call fails, or the session is made
OffsetLocalFloorAnswered ==
  /\ negotiating.floor > 0
  /\ \E outcome \in RequestOutcomes :
       IF AnswerLocalFloor(outcome).waiting
       THEN /\ negotiating' = [floor |-> 0, viewer |-> 1]
            /\ UNCHANGED sessions
       ELSE /\ negotiating' = NoRequests
            /\ sessions' = IF AnswerLocalFloor(outcome).result.error THEN sessions
                            ELSE <<AnswerLocalFloor(outcome).result.session>>
  /\ UNCHANGED <<ctl, referenceSpace, started, steps, last, ev, commits, houseY>>
  /\ UNCHANGED arcVars
  /\ UNCHANGED triggerVars

\* the viewer request is answered: the call fails or the session is made
OffsetViewerAnswered ==
  /\ negotiating.viewer > 0
  /\ \E outcome \in RequestOutcomes :
       /\ negotiating' = NoRequests
       /\ sessions' = IF AnswerViewer(outcome).error THEN sessions
                       ELSE <<AnswerViewer(outcome).session>>
  /\ UNCHANGED <<ctl, referenceSpace, started, steps, last, ev, commits, houseY>>
  /\ UNCHANGED arcVars
  /\ UNCHANGED triggerVars

OffsetCall ==
  /\ sessions # <<>>
  /\ \E position \in OffsetPositions, angle \in OffsetAngles :
       /\ referenceSpace' = setOffset(sessions[1], position, angle)
       /\ ev' = [type |-> "setOffset", slot |-> 0, error |-> FALSE,
                 calls |-> <<[position |-> position, angle |-> angle]>>,
                 space |-> DefaultSpace, aiming |-> {}]
  /\ UNCHANGED <<ctl, sessions, negotiating, started, steps, last, commits, houseY>>
  /\ UNCHANGED arcVars
  /\ UNCHANGED triggerVars

NextOffset == OffsetStart \/ OffsetLocalFloorAnswered \/ OffsetViewerAnswered \/ OffsetCall

SpecOffset == Init /\ [][NextOffset]_vars

\* ------------------------------------------------------------------------
\* The earlier version of the program (src/main.ts): teleportation with the
\* trigger. Each controller slot has a render() listener, registered while
\* the controller is connected, and selectstart / selectend handlers. One
\* XR session is started.
\* ------------------------------------------------------------------------
\* the floor mesh of lines 45-53: a 100 x 100 plane (at y = 0.0001)
floor ==
  <<Surface("floor", "y", 0, Vec(-50000, 0, -50000), Vec(50000, 0, 50000), 1,
            Normal(0, 100, 0))>>

\* the controller poses a frame can find: pointing down at the floor from two
\* places, and pointing level
TriggerPoses ==
  {Pose(Vec(0, 1000, 0), Rot(0, -53)),
   Pose(Vec(3000, 1000, 0), Rot(0, -53)),
   Pose(Vec(0, 1000, 0), Rot(0, 0))}

\* the point of the ray from the pose 200 units along its direction, beyond
\* the floor's extent
TriggerFar(pose) ==
  Vec(pose.position.x + 200 * Forward(pose.rotation).x,
      pose.position.y + 200 * Forward(pose.rotation).y,
      pose.position.z + 200 * Forward(pose.rotation).z)

\* lines 136-145: raycaster.intersectObjects([floor])[0] for the ray from the
\* controller along its -z axis
TriggerRaycast(pose) == Raycast(floor, pose.position, TriggerFar(pose))

TriggerEvent(type, slot) ==
  [type |-> type, slot |-> slot, space |-> trigger.referenceSpace,
   rendered |-> trigger.c[slot].rendered, held |-> trigger.c[slot].held]

\* lines 65-67: baseReferenceSpace = renderer.xr.getReferenceSpace()
TriggerSessionStart ==
  /\ trigger.referenceSpace = TriggerNoSpace
  /\ trigger' = [trigger EXCEPT
                   !.baseReferenceSpace = [type |-> "local-floor", y |-> 0],
                   !.referenceSpace = [base |-> [type |-> "local-floor", y |-> 0],
                                       offset |-> Identity],
                   !.ev = TriggerEvent("sessionstart", 0)]
  /\ UNCHANGED mainVars
  /\ UNCHANGED arcVars
  /\ UNCHANGED levels

\* lines 87-91: buildController throws for an unknown targeting mode, before
\* the render listener is registered
TriggerConnected ==
  /\ \E slot \in Slots, mode \in {"tracked-pointer", "screen"} :
       trigger' = [trigger EXCEPT
                     !.c[slot].listening = @ \/ mode \in KnownModes,
                     !.ev = TriggerEvent("connected", slot)]
  /\ UNCHANGED mainVars
  /\ UNCHANGED arcVars
  /\ UNCHANGED levels

\* lines 92-95: the render listener is removed
TriggerDisconnected ==
  /\ \E slot \in Slots :
       trigger' = [trigger EXCEPT
                     !.c[slot].listening = FALSE,
                     !.ev = TriggerEvent("disconnected", slot)]
  /\ UNCHANGED mainVars
  /\ UNCHANGED arcVars
  /\ UNCHANGED levels

\* lines 152-154; the device sends selectstart and selectend in turns
TriggerSelectStart ==
  /\ \E slot \in Slots :
       /\ ~trigger.c[slot].isSelecting
       /\ trigger' = [trigger EXCEPT
                     !.c[slot].isSelecting = TRUE,
                     !.c[slot].rendered = FALSE,
                     !.c[slot].held = NoIntersection,
                     !.ev = TriggerEvent("selectstart", slot)]
  /\ UNCHANGED mainVars
  /\ UNCHANGED arcVars
  /\ UNCHANGED levels

\* lines 155-171: with an INTERSECTION the reference space becomes the base
\* offset by the negated point, with the identity rotation
TriggerSelectEnd ==
  /\ \E slot \in Slots :
       /\ trigger.c[slot].isSelecting
       /\ trigger' = [trigger EXCEPT
                     !.c[slot].isSelecting = FALSE,
                     !.referenceSpace =
                       IF trigger.c[slot].INTERSECTION.hit
                       THEN [base |-> trigger.baseReferenceSpace,
                             offset |-> [position |-> Negate(trigger.c[slot].INTERSECTION.point),
                                         orientation |-> 0]]
                       ELSE @,
                     !.ev = TriggerEvent("selectend", slot)]
  /\ UNCHANGED mainVars
  /\ UNCHANGED arcVars
  /\ UNCHANGED levels

\* render() of one slot, lines 117-151, with the controller at `pose`. The
\* buttons array was taken at line 112 while gamepad was undefined, so it is
\* empty and lines 121-132 move nothing.
TriggerRenderSlot(c, pose) ==
  IF ~c.listening \/ trigger.referenceSpace = TriggerNoSpace THEN c
  ELSE IF c.isSelecting
  THEN [c EXCEPT !.INTERSECTION = TriggerRaycast(pose),
                 !.markerPosition = IF TriggerRaycast(pose).hit
                                    THEN TriggerRaycast(pose).point ELSE @,
                 !.markerVisible = TriggerRaycast(pose).hit,
                 !.rendered = TRUE,
                 !.held = TriggerRaycast(pose)]
  ELSE [c EXCEPT !.INTERSECTION = NoIntersection, !.markerVisible = FALSE]

\* lines 79-82: scene.dispatchEvent({type: "render"})
TriggerRender ==
  /\ \E poses \in [Slots -> TriggerPoses] :
       trigger' = [trigger EXCEPT
                     !.c = [slot \in Slots |-> TriggerRenderSlot(trigger.c[slot], poses[slot])],
                     !.ev = [TriggerEvent("render", 0) EXCEPT
                               !.rendered = FALSE, !.held = NoIntersection]]
  /\ UNCHANGED mainVars
  /\ UNCHANGED arcVars
  /\ UNCHANGED levels

NextTrigger ==
  \/ TriggerSessionStart
  \/ TriggerConnected
  \/ TriggerDisconnected
  \/ TriggerSelectStart
  \/ TriggerSelectEnd
  \/ TriggerRender

SpecTrigger == Init /\ [][NextTrigger]_vars

\* ------------------------------------------------------------------------
\* The trigger-operated version of src/unnamed/part_001: the handlers of
\* src/main.ts, with render() reading the gamepad's buttons on every frame, so
\* that buttons 5 and 4 move the house a level down and up.
\* ------------------------------------------------------------------------
\* the buttons a frame can find pressed on a gamepad
LevelsButtons == {{}, {ButtonX}, {ButtonY}, {ButtonX, ButtonY}}

LevelsEvent(type, slot) ==
  [type |-> type, slot |-> slot, houseY |-> levels.houseY, space |-> levels.referenceSpace]

\* a handler has run
LevelsStep(l, type, slot) ==
  [l EXCEPT !.steps = @ + 1, !.ev = LevelsEvent(type, slot)]

\* lines 132-134: baseReferenceSpace = renderer.xr.getReferenceSpace()
LevelsSessionStart ==
  /\ levels.steps < MaxSteps
  /\ levels.referenceSpace = TriggerNoSpace
  /\ levels' = LevelsStep([levels EXCEPT
                             !.baseReferenceSpace = [type |-> "local-floor", y |-> 0],
                             !.referenceSpace = [base |-> [type |-> "local-floor", y |-> 0],
                                                 offset |-> Identity]],
                          "sessionstart", 0)
  /\ UNCHANGED mainVars
  /\ UNCHANGED arcVars
  /\ UNCHANGED trigger

\* lines 194-198: buildController throws for an unknown targeting mode, before
\* the render listener is registered and the gamepad is taken
LevelsConnected ==
  /\ levels.steps < MaxSteps
  /\ \E slot \in Slots, mode \in {"tracked-pointer", "screen"}, gamepad \in BOOLEAN :
       levels' = LevelsStep(IF mode \in KnownModes
                            THEN [levels EXCEPT !.c[slot].listening = TRUE,
                                                !.c[slot].gamepad = gamepad]
                            ELSE levels,
                            "connected", slot)
  /\ UNCHANGED mainVars
  /\ UNCHANGED arcVars
  /\ UNCHANGED trigger

\* lines 199-202: the render listener is removed
LevelsDisconnected ==
  /\ levels.steps < MaxSteps
  /\ \E slot \in Slots :
       levels' = LevelsStep([levels EXCEPT !.c[slot].listening = FALSE],
                            "disconnected", slot)
  /\ UNCHANGED mainVars
  /\ UNCHANGED arcVars
  /\ UNCHANGED trigger

\* lines 259-261; the device sends selectstart and selectend in turns
LevelsSelectStart ==
  /\ levels.steps < MaxSteps
  /\ \E slot \in Slots :
       /\ ~levels.c[slot].isSelecting
       /\ levels' = LevelsStep([levels EXCEPT !.c[slot].isSelecting = TRUE],
                               "selectstart", slot)
  /\ UNCHANGED mainVars
  /\ UNCHANGED arcVars
  /\ UNCHANGED trigger

\* lines 262-278: with an INTERSECTION and a base reference space the
\* reference space becomes the base offset by the negated point
LevelsSelectEnd ==
  /\ levels.steps < MaxSteps
  /\ \E slot \in Slots :
       /\ levels.c[slot].isSelecting
       /\ levels' = LevelsStep([levels EXCEPT
                     !.c[slot].isSelecting = FALSE,
                     !.referenceSpace =
                       IF /\ levels.c[slot].INTERSECTION.hit
                          /\ levels.baseReferenceSpace # TriggerNoSpace.base
                       THEN [base |-> levels.baseReferenceSpace,
                             offset |-> [position |-> Negate(levels.c[slot].INTERSECTION.point),
                                         orientation |-> 0]]
                       ELSE @],
                     "selectend", slot)
  /\ UNCHANGED mainVars
  /\ UNCHANGED arcVars
  /\ UNCHANGED trigger

\* lines 227-237: the distance render() of one slot moves the house by, with
\* the buttons `pressed` down on the device: a button counts when it is
\* pressed and was not at the slot's previous run of render()
LevelsTranslate(c, pressed) ==
  IF ~c.gamepad THEN 0 ELSE ButtonsTranslate(pressed \ c.buttonStates)

\* render() of one slot, lines 223-258, with the controller at `pose` and the
\* buttons `pressed` down: the slot's state afterwards
LevelsRenderSlot(c, pose, pressed) ==
  LET buttons == IF c.gamepad THEN pressed ELSE {}
      found == IF c.isSelecting THEN TriggerRaycast(pose) ELSE NoIntersection
  IN  [c EXCEPT !.buttonStates = buttons,
                !.INTERSECTION = found,
                !.markerPosition = IF found.hit THEN found.point ELSE @,
                !.markerVisible = found.hit]

\* the slots whose render() runs in a frame: those with the listener
\* registered, when there is a reference space (line 225)
LevelsRunning ==
  {slot \in Slots : levels.c[slot].listening /\ levels.referenceSpace # TriggerNoSpace}

\* line 166: scene.dispatchEvent({type: "render"})
LevelsRender ==
  /\ levels.steps < MaxSteps
  /\ \E poses \in [Slots -> TriggerPoses], pressed \in [Slots -> LevelsButtons] :
       levels' = LevelsStep([levels EXCEPT
                     !.c = [slot \in Slots |->
                              IF slot \in LevelsRunning
                              THEN LevelsRenderSlot(levels.c[slot], poses[slot], pressed[slot])
                              ELSE levels.c[slot]],
                     !.houseY = @ + (IF 0 \in LevelsRunning
                                     THEN LevelsTranslate(levels.c[0], pressed[0]) ELSE 0)
                                  + (IF 1 \in LevelsRunning
                                     THEN LevelsTranslate(levels.c[1], pressed[1]) ELSE 0)],
                     "render", 0)
  /\ UNCHANGED mainVars
  /\ UNCHANGED arcVars
  /\ UNCHANGED trigger

NextLevels ==
  \/ LevelsSessionStart
  \/ LevelsConnected
  \/ LevelsDisconnected
  \/ LevelsSelectStart
  \/ LevelsSelectEnd
  \/ LevelsRender

SpecLevels == Init /\ [][NextLevels]_vars

\* ------------------------------------------------------------------------
\* TeleportationControls on its own: one controller is built as
\* createController builds it, then its methods are called in any order
\* ------------------------------------------------------------------------
\* the controller poses and heading angles update() is called with
ControlsPoses == {s.pose : s \in Samples}

ControlsAngles == {0, 90, 225}

\* lines 565-579, for one slot of a session whose base is the floor frame
ControlsCreate ==
  /\ ctl = <<>>
  /\ sessions' = <<[baseReferenceSpace |-> [type |-> "local-floor", y |-> 0]]>>
  /\ referenceSpace' = setOffset(sessions'[1], Vec(InitialX, 0, InitialZ), InitialAngle)
  /\ ctl' = <<NewController(0, 1)>>
  /\ last' = <<NoRun>>
  /\ ev' = Event("create", 0, FALSE, <<>>)
  /\ UNCHANGED <<negotiating, started, steps, commits, houseY>>
  /\ UNCHANGED arcVars
  /\ UNCHANGED triggerVars

CallStart ==
  /\ ctl # <<>>
  /\ ctl' = <<ControlsStart(ctl[1])>>
  /\ ev' = Event("start", 0, FALSE, <<>>)
  /\ UNCHANGED <<sessions, referenceSpace, negotiating, started, steps, last, commits, houseY>>
  /\ UNCHANGED arcVars
  /\ UNCHANGED triggerVars

CallUpdate ==
  /\ ctl # <<>>
  /\ \E pose \in ControlsPoses, angle \in ControlsAngles :
       /\ ctl' = <<ControlsUpdate(ctl[1], pose, house, angle)>>
       /\ ev' = [Event("update", 0, FALSE, <<>>) EXCEPT
                   !.calls = <<[position |-> pose.position, angle |-> angle]>>]
  /\ UNCHANGED <<sessions, referenceSpace, negotiating, started, steps, last, commits, houseY>>
  /\ UNCHANGED arcVars
  /\ UNCHANGED triggerVars

CallCancel ==
  /\ ctl # <<>>
  /\ ctl' = <<ControlsCancel(ctl[1])>>
  /\ ev' = Event("cancel", 0, FALSE, <<>>)
  /\ UNCHANGED <<sessions, referenceSpace, negotiating, started, steps, last, commits, houseY>>
  /\ UNCHANGED arcVars
  /\ UNCHANGED triggerVars

CallCommit ==
  /\ ctl # <<>>
  /\ commits < MaxCalls
  /\ ctl' = <<ControlsCommit(ctl[1], sessions[1]).controls>>
  /\ referenceSpace' = ControlsCommit(ctl[1], sessions[1]).referenceSpace
  /\ ev' = Event("commit", 0, FALSE, ControlsCommit(ctl[1], sessions[1]).calls)
  /\ commits' = commits + 1
  /\ UNCHANGED <<sessions, negotiating, started, steps, last, houseY>>
  /\ UNCHANGED arcVars
  /\ UNCHANGED triggerVars

NextControls == ControlsCreate \/ CallStart \/ CallUpdate \/ CallCancel \/ CallCommit

SpecControls == Init /\ [][NextControls]_vars

\* ------------------------------------------------------------------------
\* Properties of the per-frame driver
\* ------------------------------------------------------------------------
Instances == 1..Len(ctl)

\* the state is that at the end of a frame in which update() of controller i
\* ran to its branches (the controller was connected)
Drove(i) == ev.type = "render" /\ last[i].wasConnected

Released(i) == last[i].x = 0 /\ last[i].y = 0

Hidden(i) == ~ctl[i].lineVisible /\ ~ctl[i].markerVisible

\* the setOffset calls made in the last frame by controllers other than i
OtherCalls(i) == {j \in Instances : j # i /\ last[j].calls # <<>>}

\* C1: a frame that finds the controller Aiming, both axes exactly zero and
\* the marker visible ends with the controller Idle, the arc and the marker
\* hidden, and exactly one setOffset call made by that controller's update().
C1_CommitOnRelease ==
  \A i \in Instances :
    (Drove(i) /\ last[i].wasTeleporting /\ Released(i) /\ last[i].markerWasVisible)
      => /\ ~ctl[i].isTeleporting
         /\ Hidden(i)
         /\ Len(last[i].calls) = 1
         /\ last[i].op = "commit"

C1_Witness ==
  \E i \in Instances :
    /\ Drove(i) /\ last[i].wasTeleporting /\ Released(i) /\ last[i].markerWasVisible
    /\ ~ctl[i].isTeleporting
    /\ Len(last[i].calls) = 1

\* C2: a frame that finds the controller Aiming, both axes exactly zero and
\* the marker hidden ends with the controller Idle, the arc and the marker
\* hidden, and no setOffset call by that controller; unless another
\* controller committed in the same frame, the installed reference space is
\* the one from before the frame.
C2_CancelOnRelease ==
  \A i \in Instances :
    (Drove(i) /\ last[i].wasTeleporting /\ Released(i) /\ ~last[i].markerWasVisible)
      => /\ ~ctl[i].isTeleporting
         /\ Hidden(i)
         /\ last[i].calls = <<>>
         /\ last[i].op = "cancel"
         /\ OtherCalls(i) = {} => referenceSpace = ev.space

C2_Witness ==
  \E i \in Instances :
    /\ Drove(i) /\ last[i].wasTeleporting /\ Released(i) /\ ~last[i].markerWasVisible
    /\ last[i].lineWasVisible
    /\ Hidden(i)
    /\ ~ctl[i].isTeleporting
    /\ referenceSpace = ev.space

\* C3: a frame that finds the controller Idle calls start() exactly when
\* x*x + y*y > 0.25 (axes in tenths: > 25), so (0.1, 0.1) and (0.5, 0) leave
\* it Idle and (0.4, 0.4) makes it Aiming; it calls nothing else and makes no
\* setOffset call.
C3_StartOnDeflection ==
  \A i \in Instances :
    (Drove(i) /\ ~last[i].wasTeleporting)
      => /\ ctl[i].isTeleporting = (last[i].x * last[i].x + last[i].y * last[i].y > 25)
         /\ last[i].op = (IF ctl[i].isTeleporting THEN "start" ELSE "none")
         /\ last[i].calls = <<>>
         /\ (last[i].x = 1 /\ last[i].y = 1) => ~ctl[i].isTeleporting
         /\ (last[i].x = 4 /\ last[i].y = 4) => ctl[i].isTeleporting
         /\ (last[i].x = 5 /\ last[i].y = 0) => ~ctl[i].isTeleporting

C3_Witness ==
  \E i, j \in Instances :
    /\ Drove(i) /\ ~last[i].wasTeleporting
    /\ last[i].x = 4 /\ last[i].y = 4 /\ ctl[i].isTeleporting
    /\ Drove(j) /\ ~last[j].wasTeleporting
    /\ last[j].x = 5 /\ last[j].y = 0 /\ ~ctl[j].isTeleporting

\* C8: a frame that finds the controller Aiming with at least one axis
\* non-zero, at any magnitude, calls update() with the heading angle (stick
\* angle plus controller yaw), leaves the controller Aiming and makes no
\* cancel, commit or setOffset.
C8_Heading(x, y, rotation) ==
  (CASE x > 0 /\ y = x -> 225
     [] x > 0 /\ y = 0 -> 270
     [] x = 0 /\ y < 0 -> 360)
  + (IF rotation.yaw = 180 THEN 180 ELSE 0)

C8_UpdateWhileDeflected ==
  \A i \in Instances :
    (Drove(i) /\ last[i].wasTeleporting /\ ~Released(i))
      => /\ last[i].op = "update"
         /\ ctl[i].isTeleporting
         /\ last[i].calls = <<>>
         /\ ctl[i].teleportationAngle = C8_Heading(last[i].x, last[i].y, last[i].rotation)
         /\ ctl[i].arcPosition \in {s.pose.position : s \in {t \in Samples : t.x = last[i].x /\ t.y = last[i].y}}
         /\ OtherCalls(i) = {} => referenceSpace = ev.space

C8_Witness ==
  \E i \in Instances :
    /\ Drove(i) /\ last[i].wasTeleporting
    /\ last[i].x = 1 /\ last[i].y = 1
    /\ last[i].op = "update"
    /\ ctl[i].isTeleporting
    /\ ctl[i].teleportationAngle = 225

\* C4 (as claimed): a disconnect while Aiming forces the controller Idle and
\* hides the arc and the marker without changing the reference space, and a
\* later connect finds the controller Idle with the marker hidden.
C4_DisconnectCancels ==
  /\ ev.type = "disconnected" =>
       \A i \in ev.aiming :
         ctl[i].slot = ev.slot =>
           ~ctl[i].isTeleporting /\ Hidden(i) /\ referenceSpace = ev.space
  /\ (ev.type = "connected" /\ ~ev.error) =>
       \A i \in Instances :
         (ctl[i].slot = ev.slot /\ ctl[i].connectedController) =>
           ~ctl[i].isTeleporting /\ ~ctl[i].markerVisible

\* C5 (as claimed): until the first commit the offset of the installed
\* reference space is the identity.
C5_IdentityUntilCommit == commits = 0 => referenceSpace.offset = Identity

\* the offset installed by setOffset((5, 0, 2.5), pi / 4): the yaw of -45
\* degrees and the negated position turned by it
C5_InitialOffset ==
  [position |-> Vec(-1768, 0, -5303), orientation |-> 315]

\* C5 (amended): the offset is the identity until the session-start handler
\* has negotiated a base frame; that handler installs the offset of
\* setOffset((5, 0, 2.5), pi / 4); after it the installed reference space is
\* changed only by a commit, never by a sessionstart event, a failed
\* negotiation, start(), update(), cancel(), connect or disconnect.
C5_OffsetChanges ==
  /\ sessions = <<>> => referenceSpace = DefaultSpace
  /\ (sessions # <<>> /\ commits = 0) => referenceSpace.offset = C5_InitialOffset
  /\ (ev.type = "negotiated" /\ ~ev.error) => referenceSpace.offset = C5_InitialOffset
  /\ (ev.type = "negotiated" /\ ev.error) => referenceSpace = ev.space
  /\ ev.type \in {"sessionstart", "negotiating", "connected", "disconnected"}
       => referenceSpace = ev.space
  /\ (ev.type = "render" /\ \A i \in Instances : last[i].op # "commit")
       => referenceSpace = ev.space

C5_Witness ==
  /\ ev.type = "render"
  /\ commits = 0
  /\ referenceSpace.offset = C5_InitialOffset
  /\ \E i \in Instances : last[i].op = "cancel"
  /\ \E i \in Instances : last[i].op = "update"

\* C6 (as claimed): at the end of every frame the driver processed, a
\* controller that is Aiming has its arc line visible, the frame of start()
\* included.
C6_ArcVisibleWhileAiming ==
  \A i \in Instances : (Drove(i) /\ ctl[i].isTeleporting) => ctl[i].lineVisible

\* C7: right after TeleportationArc.update the marker is visible exactly when
\* the trajectory it drew has a Collision whose normal has y > 0.9; with no
\* Collision the marker is hidden and the frame goes on as usual.
C7_MarkerIffValidHit ==
  \A i \in Instances :
    (Drove(i) /\ last[i].op = "update")
      => LET r == ArcLookup(ArcArgs(Vec(0, GravityY, 0), house,
                                    ctl[i].arcPosition, ctl[i].arcRotation))
         IN  /\ ctl[i].geometry = r.trace
             /\ ctl[i].markerVisible =
                  (/\ r.intersection.hit
                   /\ r.intersection.normal.present
                   /\ r.intersection.normal.y > 90)
             /\ ~r.intersection.hit => (~ctl[i].markerVisible /\ ctl[i].isTeleporting)

C7_Witness ==
  \E i \in Instances :
    /\ Drove(i) /\ last[i].op = "update"
    /\ last[i].markerWasVisible /\ ~ctl[i].markerVisible
    /\ Len(ctl[i].geometry) = StepCount + 1

\* the trajectory of the most recent TeleportationArc.update of controller i
C13_LastArc(i) ==
  ArcLookup(ArcArgs(Vec(0, GravityY, 0), house, ctl[i].arcPosition, ctl[i].arcRotation))

\* the most recent update of controller i met the wall first
C13_WallFirst(i) ==
  /\ ctl[i].geometry # <<>>
  /\ C13_LastArc(i).intersection.hit
  /\ C13_LastArc(i).intersection.object = "wall"

\* C13: when the arc of the most recent update() met the wall (normal y = 0)
\* first, a Collision was produced and the line was drawn up to it with the
\* marker hidden, although the floor continues behind the wall; the frame of
\* that update leaves the line visible; a release after it cancels and makes
\* no setOffset call.
C13_WallHidesMarker ==
  \A i \in Instances :
    C13_WallFirst(i) =>
      /\ ctl[i].geometry = C13_LastArc(i).trace
      /\ ctl[i].geometry[Len(ctl[i].geometry)] = C13_LastArc(i).intersection.point
      /\ ~ctl[i].markerVisible
      /\ (Drove(i) /\ last[i].op = "update") => (ctl[i].lineVisible /\ ctl[i].isTeleporting)
      /\ (Drove(i) /\ last[i].wasTeleporting /\ Released(i)) =>
           /\ last[i].op = "cancel"
           /\ last[i].calls = <<>>
           /\ ~ctl[i].isTeleporting
           /\ OtherCalls(i) = {} => referenceSpace = ev.space

C13_Witness ==
  \E i \in Instances :
    /\ C13_WallFirst(i)
    /\ ctl[i].geometry[Len(ctl[i].geometry)].z = -2100
    /\ Inside(Vec(0, 0, -4373), house[1])
    /\ Drove(i) /\ last[i].wasTeleporting /\ Released(i)
    /\ last[i].lineWasVisible
    /\ last[i].op = "cancel"
    /\ referenceSpace = ev.space

\* the last controller, in update order, whose update() committed in the
\* frame that leads to the next state (0: none)
C15_Committer ==
  LastCommit([i \in 1..Len(last') |-> [op |-> last'[i].op]])

\* C15: every session object keeps the base frame it was created with, and a
\* frame with a commit installs that controller's session base offset by the
\* transform of the latest setOffset call's (position, angle) alone, whatever
\* offset was installed before.
C15_OffsetReplaced ==
  [][/\ Len(sessions') >= Len(sessions)
     /\ \A k \in 1..Len(sessions) : sessions'[k] = sessions[k]
     /\ (ev'.type = "render" /\ C15_Committer # 0) =>
          /\ Len(last'[C15_Committer].calls) = 1
          /\ referenceSpace' =
               [base |-> sessions[ctl[C15_Committer].session].baseReferenceSpace,
                offset |-> OffsetTransform(last'[C15_Committer].calls[1].position,
                                           last'[C15_Committer].calls[1].angle)]
     /\ (ev'.type = "negotiated" /\ ~ev'.error) =>
          referenceSpace' =
            [base |-> sessions'[Len(sessions')].baseReferenceSpace,
             offset |-> OffsetTransform(Vec(InitialX, 0, InitialZ), InitialAngle)]
    ]_vars

C15_Witness ==
  \E i \in Instances :
    /\ ev.type = "render"
    /\ last[i].op = "commit"
    /\ ev.space.offset = C5_InitialOffset
    /\ referenceSpace.offset # ev.space.offset
    /\ referenceSpace.offset =
         OffsetTransform(last[i].calls[1].position, last[i].calls[1].angle)
    /\ referenceSpace.base = sessions[ctl[i].session].baseReferenceSpace

\* C16: a run of the session-start handler uses up one session start and makes
\* one attempt, in up to three steps (the start and one per answer). It requests the floor-relative frame first and uses it when
\* that succeeds; it requests the viewer-relative frame only when the
\* floor-relative kind reported unsupported, and uses it moved down by the eye
\* height 1.6; when no kind is supported (or a request fails otherwise, or
\* there is no session) it fails and creates no session object, installs no
\* offset and creates no controller; on success it creates one session
\* object, installs the initial offset on its base and creates two
\* controllers.
C16_FrameNegotiation ==
  [][/\ ev'.type = "sessionstart" =>
          /\ started' = started + 1
          /\ negotiating' = [negotiating EXCEPT !.floor = IF ev'.error THEN @ ELSE @ + 1]
          /\ sessions' = sessions /\ ctl' = ctl /\ referenceSpace' = referenceSpace
     /\ ev'.type = "negotiating" =>
          /\ ev'.answers = <<"unsupported">>
          /\ ev'.requests = <<"local-floor", "viewer">>
          /\ negotiating' = [floor |-> negotiating.floor - 1,
                             viewer |-> negotiating.viewer + 1]
          /\ started' = started
          /\ sessions' = sessions /\ ctl' = ctl /\ referenceSpace' = referenceSpace
     /\ ev'.type = "negotiated" =>
          /\ started' = started
          /\ negotiating'.floor + negotiating'.viewer
               = negotiating.floor + negotiating.viewer - 1
          /\ ev'.requests \in {<<"local-floor">>, <<"local-floor", "viewer">>}
          /\ Len(ev'.answers) = Len(ev'.requests)
          /\ (ev'.requests = <<"local-floor", "viewer">>) = (ev'.answers[1] = "unsupported")
          /\ ev'.error = (ev'.answers[Len(ev'.answers)] # "ok")
          /\ ev'.error =>
               /\ sessions' = sessions
               /\ ctl' = ctl
               /\ last' = last
               /\ referenceSpace' = referenceSpace
          /\ ~ev'.error =>
               /\ Len(sessions') = Len(sessions) + 1
               /\ sessions'[Len(sessions')].baseReferenceSpace =
                    (IF ev'.answers[1] = "ok"
                     THEN [type |-> "local-floor", y |-> 0]
                     ELSE [type |-> "viewer", y |-> -1600])
               /\ referenceSpace'.base = sessions'[Len(sessions')].baseReferenceSpace
               /\ Len(ctl') = Len(ctl) + 2
     ]_vars

C16_Witness ==
  /\ ev.type = "negotiated"
  /\ ev.error
  /\ ev.answers = <<"unsupported", "unsupported">>
  /\ ev.requests = <<"local-floor", "viewer">>
  /\ Len(sessions) = 1
  /\ sessions[1].baseReferenceSpace = [type |-> "viewer", y |-> -1600]
  /\ Len(ctl) = 2
  /\ negotiating = [floor |-> 0, viewer |-> 0]
  /\ started = 2

\* the connected controllers whose button b is pressed in the frame that
\* leads to the next state and was not pressed in the frame before
C17_NewlyPressed(b) ==
  {i \in 1..Len(ctl) :
     ctl[i].connectedController /\ b \in last'[i].buttons /\ b \notin last[i].buttons}

\* C17 (as claimed): a frame translates the house by one level (2.5) down for
\* every controller whose button 5 went from released to pressed and one
\* level up for every controller whose button 4 did, and by nothing else,
\* so a held button moves it once.
C17_ButtonMovesLevel ==
  [][ev'.type = "render" =>
       houseY' = houseY + 2500 * Cardinality(C17_NewlyPressed(4))
                        - 2500 * Cardinality(C17_NewlyPressed(5))
    ]_vars

\* the trajectory TeleportationArc.update draws for controller i as the next
\* state has it
C19_Drawn(i) ==
  ArcLookup(ArcArgs(Vec(0, GravityY, 0), house, ctl'[i].arcPosition, ctl'[i].arcRotation))

\* C19: the stored heading angle is written by update() alone, with the angle
\* of its frame, and the marker position by an update() with a valid
\* Collision alone, with the hit point. A frame that commits leaves the
\* controller Idle with arc and marker hidden and calls setOffset once, with
\* the marker position and the stored angle as they were before the frame,
\* and installs the reference space of that call.
C19_CommitUsesStored ==
  [][\A i \in 1..Len(ctl) :
       IF ev'.type = "render" /\ last'[i].op = "update"
       THEN /\ ctl'[i].teleportationAngle = last'[i].angle
            /\ ctl'[i].markerPosition =
                 (IF ctl'[i].markerVisible
                  THEN C19_Drawn(i).intersection.point
                  ELSE ctl[i].markerPosition)
       ELSE /\ ctl'[i].teleportationAngle = ctl[i].teleportationAngle
            /\ ctl'[i].markerPosition = ctl[i].markerPosition
            /\ (ev'.type = "render" /\ last'[i].op = "commit") =>
                 /\ ctl[i].markerVisible
                 /\ ~ctl'[i].isTeleporting
                 /\ ~ctl'[i].lineVisible
                 /\ ~ctl'[i].markerVisible
                 /\ last'[i].calls = <<[position |-> ctl[i].markerPosition,
                                        angle |-> ctl[i].teleportationAngle]>>
                 /\ (\A j \in (i + 1)..Len(ctl) : last'[j].op # "commit") =>
                      referenceSpace' = setOffset(sessions[ctl[i].session],
                                                  ctl[i].markerPosition,
                                                  ctl[i].teleportationAngle)
    ]_vars

C19_Witness ==
  \E i \in Instances :
    /\ ev.type = "render"
    /\ last[i].op = "commit"
    /\ last[i].angle = 180
    /\ last[i].calls = <<[position |-> Vec(3000, 0, -4373), angle |-> 225]>>
    /\ ctl[i].markerPosition = Vec(3000, 0, -4373)
    /\ ctl[i].arcPosition # ctl[i].markerPosition
    /\ Hidden(i)
    /\ referenceSpace.offset = OffsetTransform(Vec(3000, 0, -4373), 225)

\* C24: outside the per-frame callback no controller changes between Idle and
\* Aiming, and the connect and disconnect handlers change the connected
\* controller (with its mesh) alone. In a frame a controller makes at most
\* one transition: one that starts was Idle, is Aiming afterwards and neither
\* commits nor cancels nor changes anything else; one that cancels or commits
\* was Aiming and is Idle afterwards; any other leaves the state as it was.
C24_TransitionsInFrameOnly ==
  [][\A i \in 1..Len(ctl) :
       IF ev'.type = "render"
       THEN /\ last'[i].op \in {"return", "none", "start", "update", "cancel", "commit"}
            /\ last'[i].op = "start" =>
                 /\ ~ctl[i].isTeleporting
                 /\ ctl'[i] = [ctl[i] EXCEPT !.isTeleporting = TRUE]
                 /\ last'[i].calls = <<>>
            /\ last'[i].op \in {"cancel", "commit"} =>
                 (ctl[i].isTeleporting /\ ~ctl'[i].isTeleporting)
            /\ last'[i].op \in {"return", "none", "update"} =>
                 ctl'[i].isTeleporting = ctl[i].isTeleporting
            /\ last'[i].op # "commit" => last'[i].calls = <<>>
       ELSE ctl'[i] = [ctl[i] EXCEPT
                         !.connectedController = ctl'[i].connectedController,
                         !.controllerMesh = ctl'[i].controllerMesh]
    ]_vars

C24_Witness ==
  \E i \in Instances :
    /\ ev.type = "disconnected"
    /\ ev.slot = ctl[i].slot
    /\ i \in ev.aiming
    /\ ctl[i].isTeleporting
    /\ ~ctl[i].connectedController
    /\ last[i].op = "start"

\* the createController instances that listen to controller slot `slot`
C25_InstancesOf(slot) == {i \in Instances : ctl[i].slot = slot}

\* C25 (as claimed): at any time, also after a further session start, every
\* controller slot is driven by at most one instance (one state machine and
\* one per-frame handler), and a frame makes at most one setOffset call per
\* slot.
C25_OneInstancePerController ==
  \A slot \in Slots :
    /\ Cardinality(C25_InstancesOf(slot)) <= 1
    /\ ev.type = "render" =>
         Cardinality({i \in C25_InstancesOf(slot) : last[i].calls # <<>>}) <= 1

\* an input source the connect handler can build a controller for
C26_Usable(device) ==
  /\ device.gamepad
  /\ device.axes >= 4
  /\ device.targetRayMode \in {"tracked-pointer", "gaze"}

\* C26: a "connected" event on a slot whose controller is connected raises
\* an error and leaves that controller as it was; the first "connected" event
\* after a "disconnected" event on the slot, with a usable input source, is
\* accepted without an error; a "disconnected" event on an unconnected
\* controller changes nothing.
C26_SecondConnectRejected ==
  [][\A i \in 1..Len(ctl) :
       /\ (ev'.type = "connected" /\ ev'.slot = ctl[i].slot /\ ctl[i].connectedController)
            => (ev'.error /\ ctl'[i] = ctl[i])
       /\ (/\ ev.type = "disconnected" /\ ev'.type = "connected"
           /\ ev'.slot = ev.slot /\ ev'.slot = ctl[i].slot /\ C26_Usable(ev'.device))
            => /\ ~ev'.error
               /\ ctl'[i] = [ctl[i] EXCEPT !.connectedController = TRUE,
                                           !.controllerMesh = ev'.device.targetRayMode]
       /\ (ev'.type = "disconnected" /\ ev'.slot = ctl[i].slot /\ ~ctl[i].connectedController)
            => (~ev'.error /\ ctl'[i] = ctl[i])
    ]_vars

\* a second, usable input source of another kind was announced on the slot
\* of a connected controller that is teleporting
C26_Witness ==
  \E i \in Instances :
    /\ ev.type = "connected" /\ ev.slot = ctl[i].slot /\ ev.error
    /\ C26_Usable(ev.device)
    /\ ctl[i].connectedController /\ ctl[i].isTeleporting
    /\ ctl[i].controllerMesh # ev.device.targetRayMode

\* C27: a "connected" event whose input source has a targeting mode other
\* than tracked-pointer and gaze, no gamepad, or fewer than 4 axes makes the
\* connect handler of its slot raise an error and connects nothing; and a frame makes no transition and no
\* setOffset call for a controller that is not connected.
C27_UnusableDeviceRejected ==
  [][/\ (ev'.type = "connected" /\ ~C26_Usable(ev'.device))
          => /\ ctl' = ctl
             /\ (\E i \in 1..Len(ctl) : ctl[i].slot = ev'.slot) => ev'.error
     /\ \A i \in 1..Len(ctl) :
          (ev'.type = "render" /\ ~ctl[i].connectedController)
            => /\ last'[i].op = "return"
               /\ last'[i].calls = <<>>
               /\ ctl'[i] = ctl[i]
    ]_vars

\* an input source with too few axes was announced on the slot of a
\* controller, which is still unconnected
C27_Witness ==
  \E i \in Instances :
    /\ ev.type = "connected" /\ ev.slot = ctl[i].slot /\ ev.error
    /\ ev.device.gamepad /\ ev.device.axes < 4
    /\ ev.device.targetRayMode = "tracked-pointer"
    /\ ~ctl[i].connectedController

\* C28: after every step a visible marker belongs to a controller that is
\* teleporting; the marker is hidden after start(), cancel() and commit() and
\* becomes visible only in a frame that calls update(); commit() is called
\* only with the marker visible, so an update() since the last start() found
\* a valid collision; and a frame with the stick released that follows a
\* frame that called start() calls cancel().
C28_MarkerOnlyWhileAiming ==
  [][/\ \A i \in 1..Len(ctl') : ctl'[i].markerVisible => ctl'[i].isTeleporting
     /\ \A i \in 1..Len(ctl) :
          /\ (~ctl[i].markerVisible /\ ctl'[i].markerVisible)
               => (ev'.type = "render" /\ last'[i].op = "update" /\ ctl[i].isTeleporting)
          /\ ev'.type = "render" =>
               /\ last'[i].op \in {"start", "cancel", "commit"} => ~ctl'[i].markerVisible
               /\ last'[i].op = "commit" => (ctl[i].markerVisible /\ ctl[i].isTeleporting)
               /\ (/\ last[i].op = "start" /\ ctl[i].connectedController
                   /\ last'[i].x = 0 /\ last'[i].y = 0)
                    => last'[i].op = "cancel"
    ]_vars

\* an update() has shown the marker of a teleporting controller
C28_Witness ==
  \E i \in Instances :
    /\ ev.type = "render" /\ last[i].op = "update"
    /\ ~last[i].markerWasVisible
    /\ ctl[i].markerVisible /\ ctl[i].isTeleporting

\* C29 (as claimed): when the sessionstart handler completes its negotiation
\* right after a "connected" event with a usable input source, which
\* therefore arrived while the handler was waiting, a controller of the
\* event's slot is connected, so that the frames drive it.
C29_EarlyConnectRecognized ==
  [][(/\ ev.type = "connected" /\ C26_Usable(ev.device)
      /\ ev'.type = "negotiated" /\ ~ev'.error)
       => \E i \in 1..Len(ctl') :
            ctl'[i].slot = ev.slot /\ ctl'[i].connectedController
    ]_vars

\* ------------------------------------------------------------------------
\* Properties of the trigger-operated version
\* ------------------------------------------------------------------------
\* C18 (as claimed): when the trigger is released and the last frame the
\* controller handled while it was held found a floor intersection, the
\* reference space becomes the base offset by the negated intersection point;
\* when it handled no frame while held, or the last one found nothing, the
\* reference space is the one from before the release.
C18_TriggerTeleports ==
  trigger.ev.type = "selectend" =>
    IF trigger.ev.rendered /\ trigger.ev.held.hit
    THEN trigger.referenceSpace =
           [base |-> trigger.baseReferenceSpace,
            offset |-> [position |-> Negate(trigger.ev.held.point), orientation |-> 0]]
    ELSE trigger.referenceSpace = trigger.ev.space

\* ------------------------------------------------------------------------
\* Properties of Arccaster.intersectObject
\* ------------------------------------------------------------------------
\* C9: the trace never has more than 51 samples, has exactly 51 when the call
\* returns without a Collision, and starts with the position passed to this
\* call.
C9_TraceBounded ==
  arcCalls > 0 =>
    /\ Len(arc.trace) <= 51
    /\ arc.trace[1] = arcArgs.position
    /\ (arc.returned /\ ~arc.intersection.hit) => Len(arc.trace) = 51

C9_Witness ==
  /\ arcCalls = 2
  /\ arc.returned
  /\ ~arc.intersection.hit
  /\ Len(arc.trace) = 51
  /\ arc.trace[1] = Vec(3000, 0, 0)

\* C10: every iteration tests one segment and appends one sample; the first
\* segment test that reports a hit is the last one made, its hit point (not
\* the integrated position) is the last sample and its intersection is
\* returned; a Collision is returned exactly when some segment test within
\* the 50 steps reported a hit.
C10_HitEndsTrace ==
  arcCalls > 0 =>
    /\ Len(arc.trace) = Len(tested) + 1
    /\ Len(tested) <= 50
    /\ \A k \in 1..(Len(tested) - 1) : ~tested[k].hit
    /\ arc.intersection.hit = (\E k \in 1..Len(tested) : tested[k].hit)
    /\ arc.intersection.hit =>
         /\ arc.returned
         /\ arc.intersection = tested[Len(tested)]
         /\ arc.trace[Len(arc.trace)] = tested[Len(tested)].point
    /\ (arc.returned /\ ~arc.intersection.hit) => Len(tested) = 50

C10_Witness ==
  /\ arcCalls > 0
  /\ arc.returned
  /\ arc.intersection.hit
  /\ Len(arc.trace) > 10
  /\ arc.trace[Len(arc.trace)] = arc.intersection.point
  /\ arc.trace[Len(arc.trace)] # arc.position

\* C11 (as claimed): whatever the gravity and the starting orientation, every
\* sample that is not the Collision's point differs from the sample before
\* it, so the path length grows with every sample.
C11_SamplesDistinct ==
  arcCalls > 0 =>
    \A k \in 1..(Len(arc.trace) - 1) :
      (k + 1 < Len(arc.trace) \/ ~arc.intersection.hit) => arc.trace[k] # arc.trace[k + 1]

\* the call of the scenario: gravity (0, -0.1, 0), the ground plane at y = 0,
\* start (0, 1, 0), facing -z
C12_Scenario ==
  arcArgs = ArcArgs(Vec(0, GravityY, 0), ground, Vec(0, 1000, 0), Rot(0, 0))

\* C12: in the scenario the height after k steps is 1 - 0.002 * k * (k + 1);
\* the call ends with a Collision on y = 0 found by the 22nd segment test, the
\* trace has 23 samples, the hit z lies between -4.4 and -4.2, and
\* TeleportationArc.update then shows the marker at the hit point.
C12_GroundScenario ==
  (arcCalls > 0 /\ C12_Scenario) =>
    /\ \A k \in 1..Len(tested) :
         ~tested[k].hit => arc.trace[k + 1].y = 1000 - 2 * k * (k + 1)
    /\ Len(tested) <= 22
    /\ arc.returned =>
         /\ arc.intersection.hit
         /\ arc.intersection.point.y = 0
         /\ Len(tested) = 22
         /\ Len(arc.trace) = 23
         /\ arc.intersection.point.z > -4400
         /\ arc.intersection.point.z < -4200
         /\ ArcDraw(NewController(0, 1), 0, ArcResult(arc)).markerVisible
         /\ ArcDraw(NewController(0, 1), 0, ArcResult(arc)).markerPosition
              = arc.intersection.point
         /\ ArcDraw(NewController(0, 1), 0, ArcResult(arc)).geometry = arc.trace

C12_Witness ==
  /\ arcCalls > 0
  /\ C12_Scenario
  /\ arc.returned
  /\ arc.intersection.hit
  /\ Len(arc.trace) = 23
  /\ arc.intersection.point = Vec(0, 0, -4373)

\* ------------------------------------------------------------------------
\* Properties of ThreeXRSession.setOffset
\* ------------------------------------------------------------------------
\* the inverse of the rigid transform t (translate by t.position after turning
\* by t.orientation) applied to the origin
C14_InverseOrigin(t) == ApplyYaw(Negate(t.position), -t.orientation)

\* the yaw of the inverse of t
C14_InverseYaw(t) == Mod360(-t.orientation)

\* C14: after setOffset(P, theta) the installed offset has the orientation
\* yaw(-theta) and the position -P turned by yaw(-theta); the inverse of the
\* offset maps the origin to P and its yaw is theta modulo a full turn.
C14_OffsetRoundTrip ==
  ev.type = "setOffset" =>
    /\ referenceSpace.offset.orientation = Mod360(-ev.calls[1].angle)
    /\ referenceSpace.offset.position =
         ApplyYaw(Negate(ev.calls[1].position), -ev.calls[1].angle)
    /\ C14_InverseOrigin(referenceSpace.offset) = ev.calls[1].position
    /\ C14_InverseYaw(referenceSpace.offset) = Mod360(ev.calls[1].angle)

C14_Witness ==
  /\ ev.type = "setOffset"
  /\ ev.calls[1] = [position |-> Vec(5000, 1000, 2500), angle |-> 450]
  /\ referenceSpace.offset = [position |-> Vec(2500, -1000, -5000), orientation |-> 270]
  /\ C14_InverseOrigin(referenceSpace.offset) = Vec(5000, 1000, 2500)

\* ------------------------------------------------------------------------
\* Properties of the segment tests
\* ------------------------------------------------------------------------
\* the end of the k-th segment tested: the integrated position, which is the
\* next sample unless the segment had a hit
C20_SegmentEnd(k) ==
  IF tested[k].hit THEN arc.position ELSE arc.trace[k + 1]

\* the segment a -> b meets the rectangle s, coming from its front side
C20_Meets(a, b, s) ==
  /\ a[s.axis] # b[s.axis]
  /\ ~(a[s.axis] > s.at /\ b[s.axis] > s.at)
  /\ ~(a[s.axis] < s.at /\ b[s.axis] < s.at)
  /\ (s.front = 1) = (b[s.axis] < a[s.axis])
  /\ Inside(HitPoint(a, b, s), s)

\* p lies in the box spanned by a and b
C20_Within(a, p, b) ==
  \A k \in {"x", "y", "z"} :
    (a[k] <= p[k] /\ p[k] <= b[k]) \/ (b[k] <= p[k] /\ p[k] <= a[k])

\* the squared distance of a and p
C20_DistSq(a, p) ==
  (a.x - p.x) * (a.x - p.x) + (a.y - p.y) * (a.y - p.y) + (a.z - p.z) * (a.z - p.z)

\* C20: a segment test reports a hit exactly when some surface of the object
\* (children included) is met from its front by the segment between the
\* previous sample and the new position; the hit reported lies within the segment, so geometry
\* further along the ray is left to later segments; no surface meets the
\* segment nearer to the previous sample than the reported hit; and the
\* Collision returned is that of the earliest segment with a hit.
C20_NearestHitInSegment ==
  arcCalls > 0 =>
    \A k \in 1..Len(tested) :
      /\ tested[k].hit =
           (\E i \in 1..Len(arcArgs.object) :
              C20_Meets(arc.trace[k], C20_SegmentEnd(k), arcArgs.object[i]))
      /\ tested[k].hit =>
           /\ C20_Within(arc.trace[k], tested[k].point, C20_SegmentEnd(k))
           /\ \A i \in 1..Len(arcArgs.object) :
                C20_Meets(arc.trace[k], C20_SegmentEnd(k), arcArgs.object[i]) =>
                  C20_DistSq(arc.trace[k], tested[k].point)
                    <= C20_DistSq(arc.trace[k],
                                  HitPoint(arc.trace[k], C20_SegmentEnd(k), arcArgs.object[i]))
           /\ k = Len(tested)
           /\ arc.intersection = tested[k]

C20_Witness ==
  /\ arcCalls > 0
  /\ arcArgs = ArcArgs(Vec(0, GravityY, 0), stacked, Vec(0, 1000, 0), Rot(0, 0))
  /\ arc.returned
  /\ Len(tested) = 16
  /\ C20_Meets(arc.trace[16], arc.position, stacked[1])
  /\ C20_Meets(arc.trace[16], arc.position, stacked[2])
  /\ arc.intersection.object = "upper"
  /\ arc.intersection.point.y = 500

\* ------------------------------------------------------------------------
\* Properties of the landing-validity predicate
\* ------------------------------------------------------------------------
\* C21: the Collision of a returned trajectory is accepted by
\* isGroundIntersection exactly when it carries a normal whose y is above 0.9:
\* 0.91 and 1 are accepted, 0.9, 0.89, 0 and -0.91 are rejected, and a hit
\* without a normal is rejected.
C21_ValidityThreshold ==
  (arcCalls > 0 /\ arc.returned /\ arc.intersection.hit) =>
    /\ isGroundIntersection(arc.intersection) =
         (arc.intersection.normal.present /\ arc.intersection.normal.y >= 91)
    /\ arc.intersection.normal = Normal(41, 91, 0) => isGroundIntersection(arc.intersection)
    /\ arc.intersection.normal = Normal(0, 100, 0) => isGroundIntersection(arc.intersection)
    /\ arc.intersection.normal = Normal(44, 90, 0) => ~isGroundIntersection(arc.intersection)
    /\ arc.intersection.normal = Normal(46, 89, 0) => ~isGroundIntersection(arc.intersection)
    /\ arc.intersection.normal = Normal(0, 0, 100) => ~isGroundIntersection(arc.intersection)
    /\ arc.intersection.normal = Normal(0, -91, 41) => ~isGroundIntersection(arc.intersection)
    /\ arc.intersection.normal = NoNormal => ~isGroundIntersection(arc.intersection)

C21_Witness ==
  /\ arcCalls = 2
  /\ arc.returned
  /\ arc.intersection.hit
  /\ arc.intersection.normal = Normal(44, 90, 0)
  /\ ~isGroundIntersection(arc.intersection)
  /\ arcArgs.object = sloped(Normal(44, 90, 0))

\* ------------------------------------------------------------------------
\* Properties of the TeleportationControls methods
\* ------------------------------------------------------------------------
\* C22: update() called on an Idle controller leaves it Idle, leaves the
\* stored heading angle, the arc's pose, the drawn trajectory and the marker
\* position as they were, and leaves both the arc line and the marker hidden.
C22_UpdateWhileIdle ==
  [][(ctl # <<>> /\ ev'.type = "update" /\ ~ctl[1].isTeleporting) =>
       /\ ~ctl'[1].isTeleporting
       /\ ctl'[1].teleportationAngle = ctl[1].teleportationAngle
       /\ ctl'[1].arcPosition = ctl[1].arcPosition
       /\ ctl'[1].arcRotation = ctl[1].arcRotation
       /\ ctl'[1].geometry = ctl[1].geometry
       /\ ctl'[1].markerPosition = ctl[1].markerPosition
       /\ ctl'[1].markerRotation = ctl[1].markerRotation
       /\ ~ctl'[1].lineVisible
       /\ ~ctl'[1].markerVisible
       /\ referenceSpace' = referenceSpace
    ]_vars

C22_Witness ==
  /\ ctl # <<>>
  /\ ev.type = "update"
  /\ ev.aiming = {}
  /\ ev.calls = <<[position |-> Vec(0, 1000, 0), angle |-> 90]>>
  /\ ctl[1].arcPosition = Vec(3000, 1000, 0)
  /\ ctl[1].teleportationAngle = 225
  /\ Len(ctl[1].geometry) = 23
  /\ ~ctl[1].lineVisible
  /\ ~ctl[1].markerVisible

\* C23 (as claimed): start() on a controller that is Aiming and cancel() on a
\* controller that is Idle, a freshly created one included, leave the
\* controller (state, arc visibility, marker visibility and the rest) and the
\* installed reference space as they were.
C23_RedundantCallsNoOp ==
  [][(/\ ctl # <<>>
      /\ \/ ev'.type = "start" /\ ctl[1].isTeleporting
         \/ ev'.type = "cancel" /\ ~ctl[1].isTeleporting)
       => (ctl' = ctl /\ referenceSpace' = referenceSpace)
    ]_vars

====
